---- MODULE Spec2Model ----
(***************************************************************************)
(* Model of the research orchestrator (src/src/agents/orchestrator.ts).    *)
(*                                                                         *)
(* The orchestrator is single-threaded JavaScript.  The model follows the  *)
(* event loop: `micro` is the queue of ready continuations (the job that   *)
(* is running is its head), and a macrotask (an API call, a timer, an      *)
(* agent call settling) starts only when that queue is empty.  A workflow  *)
(* is a coroutine whose position is pc[p]; every task promise of a batch   *)
(* has its own state in tstate[p][i].                                      *)
(***************************************************************************)
EXTENDS Integers, Sequences, FiniteSets, TLC

(***************************************************************************)
(* Bounds of the model.                                                    *)
(***************************************************************************)
\* the concurrency caps the constructor is tried with: 1..MaxCap
MaxCap == 2
\* calls of pauseProject in one run
MaxPauses == 1
\* agent calls that return success=false, raise, or store operations that fail
MaxFaults == 1

\* project ids handed to startProject / pauseProject
ProjectIds == {"p1", "p2"}
\* the ids are interchangeable: they are handed out in this order
IdOrder == << "p1", "p2" >>
NextFreshId(active) ==
    IdOrder[CHOOSE k \in 1..Len(IdOrder) :
              /\ IdOrder[k] \notin active
              /\ \A j \in 1..(k - 1) : IdOrder[j] \in active]

(***************************************************************************)
(* Scoping documents (the inputs of startProject).                         *)
(***************************************************************************)
Q(c, pr) == [category |-> c, priority |-> pr]

\* the scenario of the spec: one critical financial question, no data source
DocFinancial ==
    [keyQuestions |-> << Q("financial", "critical") >>,
     webSearch |-> FALSE, financialReports |-> FALSE]

\* one question that only the web researcher handles: one task, and an empty
\* deep-analysis batch
DocLeadership ==
    [keyQuestions |-> << Q("leadership", "medium") >>,
     webSearch |-> FALSE, financialReports |-> FALSE]

\* a scoping input that did not go through the parser: its keyQuestions is not
\* a list (for..of over it throws)
DocMalformed ==
    [keyQuestions |-> << >>, webSearch |-> FALSE, financialReports |-> FALSE,
     malformed |-> TRUE]
IsMalformed(doc) == "malformed" \in DOMAIN doc

\* one question and the supplementary financial task: two analysis tasks
DocPair ==
    [keyQuestions |-> << Q("competitive", "low") >>,
     webSearch |-> FALSE, financialReports |-> TRUE]

\* two questions and the supplementary financial task: three analysis tasks
DocWide ==
    [keyQuestions |-> << Q("competitive", "high"), Q("operational", "low") >>,
     webSearch |-> FALSE, financialReports |-> TRUE]

Docs == {DocFinancial, DocPair}

\* key questions of a planning input
MaxQuestions == 2
\* insights one agent call extracts
MaxInsights == 1
\* sources the tool calls of the agents register for one project
MaxSources == 1
\* findings the callers of the store give an id of their own
MaxFindings == 2
\* entries the callers of the store add to one list of a shared context
MaxEntries == 2

\* the categories and the priorities of KeyQuestionSchema
Categories ==
    {"financial", "competitive", "market", "leadership", "technology", "legal",
     "operational", "reputation", "custom"}
Priorities == {"critical", "high", "medium", "low"}

\* the scoping documents whose key questions are at most MaxQuestions of qs
ScopingDocuments(qs) ==
    [keyQuestions : UNION {[1..n -> qs] : n \in 0..MaxQuestions},
     webSearch : BOOLEAN, financialReports : BOOLEAN]

\* planning inputs over every category, at the two ends of the priorities
CategoryDocs ==
    ScopingDocuments({Q(c, pr) : c \in Categories, pr \in {"critical", "low"}})

\* a key question whose priority field is absent (a caller of startProject that
\* did not go through the parser)
Unspecified == "unspecified"

\* planning inputs over every priority: a category of one web task, and one of
\* an analysis task before a web task
PriorityDocs ==
    ScopingDocuments({Q(c, pr) : c \in {"leadership", "financial"},
                                 pr \in Priorities \cup {Unspecified}})

\* the documents a project id is started with: the first project is the small
\* one, whatever runs next to it or after it is any of Docs
DocsFor(p) == IF p = "p1" THEN {DocFinancial} ELSE Docs

(***************************************************************************)
(* Planning helpers.                                                       *)
(***************************************************************************)
determineAgentsForQuestion(question) ==
    CASE question.category = "financial"   -> << "financial_analyst", "web_researcher" >>
      [] question.category = "competitive" -> << "competitive_intelligence", "web_researcher" >>
      [] question.category = "market"      -> << "competitive_intelligence", "web_researcher" >>
      [] question.category = "leadership"  -> << "web_researcher" >>
      [] question.category = "technology"  -> << "web_researcher", "competitive_intelligence" >>
      [] question.category = "legal"       -> << "web_researcher" >>
      [] question.category = "operational" -> << "web_researcher", "financial_analyst" >>
      [] question.category = "reputation"  -> << "web_researcher" >>
      [] question.category = "custom"      -> << "web_researcher" >>
      [] OTHER                             -> << "web_researcher" >>

questionPriorityToNumber(priority) ==
    CASE priority = "critical" -> 4
      [] priority = "high"     -> 3
      [] priority = "medium"   -> 2
      [] priority = "low"      -> 1
      [] OTHER                 -> 2

\* a task definition; its id stands for the uuid: the planning project and a serial
TaskDefinition(p, n, agentType, prio, hasQuestionId) ==
    [id |-> << p, n >>, agentType |-> agentType, projectId |-> p,
     priority |-> prio, questionTask |-> hasQuestionId, dependencies |-> {}]

RECURSIVE QuestionTasks(_, _, _, _)
\* the tasks of the key questions from index qi on, numbered from n
QuestionTasks(p, questions, qi, n) ==
    IF qi > Len(questions) THEN << >>
    ELSE LET agentTypes == determineAgentsForQuestion(questions[qi])
             prio == questionPriorityToNumber(questions[qi].priority)
             mine == [k \in 1..Len(agentTypes) |->
                        TaskDefinition(p, n + k - 1, agentTypes[k], prio, TRUE)]
         IN  mine \o QuestionTasks(p, questions, qi + 1, n + Len(agentTypes))

\* the supplementary tasks do not look at the dataSources flags
PlannedTasks_AlwaysSupplementary(p, doc) ==
    LET qt == QuestionTasks(p, doc.keyQuestions, 1, 1)
    IN  qt \o << TaskDefinition(p, Len(qt) + 1, "web_researcher", 2, FALSE),
                 TaskDefinition(p, Len(qt) + 2, "financial_analyst", 2, FALSE) >>

PlannedTasks(p, doc) ==
    LET qt == QuestionTasks(p, doc.keyQuestions, 1, 1)
        w  == IF doc.webSearch
              THEN << TaskDefinition(p, Len(qt) + 1, "web_researcher", 2, FALSE) >>
              ELSE << >>
        f  == IF doc.financialReports
              THEN << TaskDefinition(p, Len(qt) + Len(w) + 1, "financial_analyst", 2, FALSE) >>
              ELSE << >>
    IN  qt \o w \o f

RECURSIVE InsertByPriority(_, _)
\* insert t behind every task whose priority is at least its own (stable)
InsertByPriority(sorted, t) ==
    IF sorted = << >> THEN << t >>
    ELSE IF Head(sorted).priority >= t.priority
         THEN << Head(sorted) >> \o InsertByPriority(Tail(sorted), t)
         ELSE << t >> \o sorted

RECURSIVE SortByPriority(_)
\* tasks.sort((a, b) => b.priority - a.priority): descending and stable
SortByPriority(tasks) ==
    IF tasks = << >> THEN << >>
    ELSE InsertByPriority(SortByPriority(SubSeq(tasks, 1, Len(tasks) - 1)),
                          tasks[Len(tasks)])

\* the positions a batch can have: no plan of the model is longer
TaskSlots == 1..Len(PlannedTasks("p1", DocWide))

IsPrimaryTask(t) == t.agentType = "web_researcher" /\ t.dependencies = {}
IsAnalysisTask(t) ==
    t.agentType = "financial_analyst" \/ t.agentType = "competitive_intelligence"

AgentTypes ==
    {"web_researcher", "financial_analyst", "competitive_intelligence", "report_generator"}

createAgentStatuses == [a \in AgentTypes |-> "idle"]

EventTypes ==
    {"project:created", "project:updated", "project:completed", "project:failed",
     "agent:started", "agent:progress", "agent:completed", "agent:error",
     "finding:discovered",
     "report:completed"}

(***************************************************************************)
(* State.                                                                  *)
(***************************************************************************)
VARIABLES
    maxConcurrentAgents, \* config.maxConcurrentAgents
    taskQueue,           \* this.taskQueue, one per orchestrator
    runningTasks,        \* this.runningTasks, one per orchestrator
    activeProjects,      \* keys of this.activeProjects
    status,              \* project.status
    progress,            \* project.progress
    currentPhase,        \* project.currentPhase
    findings,            \* project.findings
    errors,              \* project.errors
    report,              \* project.report
    agentStatus,         \* project.agents[..].status
    scopingDocument,     \* project.scopingDocument
    storeFindings,       \* findings table of the store, per project_id
    dbStatus,            \* projects.status column of the store
    events,              \* number of events emitted, per project and type
    pc,                  \* position of the workflow coroutine of a project
    phase,               \* the batch the workflow runs: "primary" or "deep"
    batch,               \* the `tasks` argument of the running executeTaskBatch
    idx,                 \* position of the for loop in `tasks`
    completedTasks,      \* the counter of the running executeTaskBatch
    progressEvents,      \* the payloads of the agent:progress events of the running executeTaskBatch
    tstate,              \* state of each element of `results`
    result,              \* the `result` of each executeTask of the batch
    exc,                 \* the exception travelling to the catch of executeWorkflow
    micro,               \* ready continuations, head first
    crashed,             \* the process ended on an unhandled rejection
    pauseLog,            \* the calls of pauseProject so far (history)
    returned,            \* what the caller of startProject received (history)
    sharedContext,       \* shared_context table of the store, per project_id
    appendCalls,         \* the calls of the append operations so far (history)
    storeSources,        \* rows of the sources table, in insertion order
    metadata,            \* project.metadata: totalSources and completedAt
    cleanups,            \* calls of cleanExpiredMemories by a project's run (history)
    rejectedStarts,      \* ids whose startProject call rejected (history)
    lastCall,            \* the last direct call of a store operation and its result
    http,                \* the API request in the authentication middleware
    orchestratorInstance,\* the module-level orchestratorInstance of getOrchestrator
    orchestrators,       \* the `orchestrators` Map of the server, per GCP project id
    instanceProjects,    \* keys of this.activeProjects, per orchestrator instance
    startedUnder,        \* the GCP project id of the caller that started a project (history)
    response,            \* the last response of a project route of the server
    faults               \* failures injected so far

vars == << maxConcurrentAgents, taskQueue, runningTasks, activeProjects, status,
           progress, currentPhase, findings, errors, report, agentStatus,
           scopingDocument, storeFindings, dbStatus, events, pc, phase, batch, idx, completedTasks, progressEvents, tstate, result, exc, micro,
           crashed, pauseLog, returned, sharedContext, appendCalls, storeSources,
           metadata, cleanups, rejectedStarts, lastCall, http, orchestratorInstance,
           orchestrators, instanceProjects, startedUnder, response, faults >>

\* groups for UNCHANGED
serverVars ==
    << orchestratorInstance, orchestrators, instanceProjects, startedUnder, response >>
callVars == << rejectedStarts, lastCall, http, serverVars >>
envVars == << maxConcurrentAgents, crashed, pauseLog, callVars >>
dataVars == << findings, errors, report, agentStatus, scopingDocument, storeFindings >>
batchVars == << phase, batch, idx, completedTasks, progressEvents, tstate, result >>
storeVars == << sharedContext, appendCalls, storeSources, metadata, cleanups >>

NoException == "none"
NoResult == [success |-> "none", error |-> ""]
Raised == [success |-> "raised", error |-> ""]

\* req.gcpAuth before the middleware attaches the auth context
NoAuth == [projectId |-> "", accessToken |-> << >>]

\* no API request is under way
NoRequest ==
    [path |-> << >>, authorization |-> << >>, projectHeader |-> "",
     defaultProjectId |-> "", stage |-> "none", status |-> 0, gcpAuth |-> NoAuth]

\* no row of shared_context; createProject inserts NewContext
NoContext ==
    [present |-> FALSE, completedTasks |-> << >>, pendingTasks |-> << >>,
     discoveredInsights |-> << >>]
NewContext == [NoContext EXCEPT !.present = TRUE]

\* no store operation has been called directly; a call records its arguments
\* (project, question), whether it returned or raised, the rows or the context
\* it returned, and how many rows carried the id it wrote before it ran
NoCall ==
    [op |-> "none", project |-> "", question |-> "", outcome |-> "none",
     rows |-> << >>, context |-> NoContext, prior |-> 0]

\* gcpAuth.projectId of the authenticated callers
GcpProjectIds == {"gcp-x", "gcp-default"}

\* orchestratorInstance = null; the instances are numbered from 1
NoInstance == 0

\* no project route has answered
NoResponse == [route |-> "none", gcpProjectId |-> "", status |-> 0, projects |-> {}]

NotReturned == [status |-> "none", progress |-> 0, dispatched |-> 0]

\* the state after construction; doc is the scoping document a caller holds
InitState(doc) ==
    /\ maxConcurrentAgents \in 1..MaxCap
    /\ taskQueue = << >>
    /\ runningTasks = {}
    /\ activeProjects = {}
    /\ status = [p \in ProjectIds |-> "absent"]
    /\ progress = [p \in ProjectIds |-> 0]
    /\ currentPhase = [p \in ProjectIds |-> ""]
    /\ findings = [p \in ProjectIds |-> << >>]
    /\ errors = [p \in ProjectIds |-> << >>]
    /\ report = [p \in ProjectIds |-> "null"]
    /\ agentStatus = [p \in ProjectIds |-> createAgentStatuses]
    /\ scopingDocument = [p \in ProjectIds |-> doc]
    /\ storeFindings = [p \in ProjectIds |-> << >>]
    /\ dbStatus = [p \in ProjectIds |-> "absent"]
    /\ events = [p \in ProjectIds |-> [e \in EventTypes |-> 0]]
    /\ pc = [p \in ProjectIds |-> "idle"]
    /\ phase = [p \in ProjectIds |-> "none"]
    /\ batch = [p \in ProjectIds |-> << >>]
    /\ idx = [p \in ProjectIds |-> 1]
    /\ completedTasks = [p \in ProjectIds |-> 0]
    /\ progressEvents = [p \in ProjectIds |-> << >>]
    /\ tstate = [p \in ProjectIds |-> << >>]
    /\ result = [p \in ProjectIds |-> << >>]
    /\ exc = [p \in ProjectIds |-> NoException]
    /\ micro = << >>
    /\ crashed = FALSE
    /\ pauseLog = << >>
    /\ returned = [p \in ProjectIds |-> NotReturned]
    /\ sharedContext = [p \in ProjectIds |-> NoContext]
    /\ appendCalls = [p \in ProjectIds |-> [completedTasks |-> 0, discoveredInsights |-> 0]]
    /\ storeSources = << >>
    /\ metadata = [p \in ProjectIds |-> [totalSources |-> 0, completedAt |-> FALSE]]
    /\ cleanups = [p \in ProjectIds |-> 0]
    /\ rejectedStarts = {}
    /\ lastCall = NoCall
    /\ http = NoRequest
    /\ orchestratorInstance = NoInstance
    /\ orchestrators = [g \in GcpProjectIds |-> NoInstance]
    /\ instanceProjects = [k \in 1..Cardinality(GcpProjectIds) |-> {}]
    /\ startedUnder = [p \in ProjectIds |-> ""]
    /\ response = NoResponse
    /\ faults = 0

Init == InitState(DocFinancial)

(***************************************************************************)
(* Helpers of the actions.                                                 *)
(***************************************************************************)
WfJob(p) == [k |-> "wf", p |-> p, i |-> 0]
SettleJob(p, i) == [k |-> "settle", p |-> p, i |-> i]
\* the continuation of the caller of startProject (`await orch.startProject`)
CallerJob(p) == [k |-> "caller", p |-> p, i |-> 0]

\* job is the continuation the event loop is running
Running(job) == ~crashed /\ micro # << >> /\ Head(micro) = job
\* a macrotask starts when the microtask queue has drained
Macrotask == ~crashed /\ micro = << >>

\* the running job awaits a promise that is already settled
Yield == micro' = Append(Tail(micro), Head(micro))
\* the running job ends or awaits a pending promise
Leave == micro' = Tail(micro)

\* the tasks of the running batch of p that are dispatched and not settled
InFlight(p) ==
    {i \in 1..Len(tstate[p]) : tstate[p][i] \in {"running", "returned_ok", "returned_err"}}

emitEvent(ev, p, type) == [ev EXCEPT ![p][type] = @ + 1]

updateProjectStatus(p, s, g, ph) ==
    /\ status' = [status EXCEPT ![p] = s]
    /\ progress' = [progress EXCEPT ![p] = g]
    /\ currentPhase' = [currentPhase EXCEPT ![p] = ph]
    /\ events' = emitEvent(events, p, "project:updated")

\* result.error || 'Unknown error'
ErrorMessage(e) == IF e = "" THEN "Unknown error" ELSE e

\* the task-level messages an agent reports ("" stands for no message)
AgentErrors == {"rate_limited", ""}

\* the fields of `updates` replace the stored ones, the others are kept
\* (`updates.x || current.x`); nothing happens without a row
updateSharedContext_Replaces(ctx, p, updates) ==
    LET current == ctx[p]
    IN  IF ~current.present THEN ctx
        ELSE [ctx EXCEPT ![p] =
                 [f \in DOMAIN current |->
                     IF f \in DOMAIN updates THEN updates[f]
                     ELSE IF f = "present" THEN TRUE ELSE << >>]]

updateSharedContext(ctx, p, updates) ==
    LET current == ctx[p]
    IN  IF ~current.present THEN ctx
        ELSE [ctx EXCEPT ![p] =
                 [f \in DOMAIN current |->
                     IF f \in DOMAIN updates THEN updates[f] ELSE current[f]]]

\* addCompletedTask that creates the context of a project that has none
addCompletedTask_Upserts(ctx, p, task) ==
    LET context == IF ctx[p].present THEN ctx[p] ELSE NewContext
    IN  [ctx EXCEPT ![p] =
            [context EXCEPT !.completedTasks = Append(context.completedTasks, task),
                            !.pendingTasks = SelectSeq(context.pendingTasks,
                                                       LAMBDA t : t # task)]]

addCompletedTask(ctx, p, task) ==
    LET context == ctx[p]
    IN  IF ~context.present THEN ctx
        ELSE updateSharedContext(ctx, p,
                 [completedTasks |-> Append(context.completedTasks, task),
                  pendingTasks |-> SelectSeq(context.pendingTasks, LAMBDA t : t # task)])

addDiscoveredInsight(ctx, p, insight) ==
    LET context == ctx[p]
    IN  IF ~context.present THEN ctx
        ELSE updateSharedContext(ctx, p,
                 [discoveredInsights |-> Append(context.discoveredInsights, insight)])

\* the entries of the shared context: `agentType: question` of a planned task,
\* the description of a completed task, the k-th insight of a task
PendingEntry(task) == << "pending", task.id, 0 >>
CompletedEntry(task) == << "completed", task.id, 0 >>
InsightEntry(task, k) == << "insight", task.id, k >>
\* the task of the report agent, which is in no plan
ReportTask(p) == [id |-> << p, 0 >>, agentType |-> "report_generator", projectId |-> p]

RECURSIVE addInsights(_, _, _, _)
\* for (const insight of insights) this.addInsight(context.projectId, insight),
\* from the k-th of n insights on
addInsights(ctx, task, k, n) ==
    IF k > n THEN ctx
    ELSE addInsights(addDiscoveredInsight(ctx, task.projectId, InsightEntry(task, k)),
                     task, k + 1, n)

\* questionId: context.questionId || 'general' (or 'competitive', 'financial');
\* "question" stands for the id of the key question the task was planned for
QuestionIdOf(task) ==
    IF task.questionTask THEN "question"
    ELSE CASE task.agentType = "web_researcher" -> "general"
           [] task.agentType = "financial_analyst" -> "financial"
           [] OTHER -> "competitive"

\* the finding an execution of task stores: BaseAgent.storeFinding gives it an
\* id of its own (uuidv4()), one per execution
Finding(task, p) ==
    [id |-> task.id, questionId |-> QuestionIdOf(task), task |-> task.id,
     agentType |-> task.agentType, ranBy |-> p]

(***************************************************************************)
(* startProject and the planning phase.                                    *)
(***************************************************************************)
\* startProject: the store row, the project state, project:created, and the
\* call of executeWorkflow, whose first job is then the running one.  A call
\* with the id of a project that exists throws in memory.createProject (the id
\* is the primary key of the projects table) before it changes any state
startProject(p, doc) ==
    /\ Macrotask
    /\ p \notin activeProjects
    /\ p = NextFreshId(activeProjects)
    /\ dbStatus' = [dbStatus EXCEPT ![p] = "pending"]
    /\ scopingDocument' = [scopingDocument EXCEPT ![p] = doc]
    /\ status' = [status EXCEPT ![p] = "initializing"]
    /\ progress' = [progress EXCEPT ![p] = 0]
    /\ currentPhase' = [currentPhase EXCEPT ![p] = "Initializing research workflow"]
    /\ agentStatus' = [agentStatus EXCEPT ![p] = createAgentStatuses]
    /\ findings' = [findings EXCEPT ![p] = << >>]
    /\ report' = [report EXCEPT ![p] = "null"]
    /\ errors' = [errors EXCEPT ![p] = << >>]
    /\ activeProjects' = activeProjects \cup {p}
    /\ events' = emitEvent(events, p, "project:created")
    /\ pc' = [pc EXCEPT ![p] = "plan_enter"]
    /\ micro' = << WfJob(p) >>
    /\ sharedContext' = [sharedContext EXCEPT ![p] = NewContext]
    /\ metadata' = [metadata EXCEPT ![p] = [totalSources |-> 0, completedAt |-> FALSE]]
    /\ UNCHANGED << returned, appendCalls, storeSources, cleanups, maxConcurrentAgents,
                    crashed, pauseLog, rejectedStarts, lastCall, http, batchVars,
                    taskQueue, runningTasks, storeFindings, exc, faults >>

\* startProject called on the orchestrator directly
StartProject(p, doc) == startProject(p, doc) /\ UNCHANGED serverVars

\* startProject with an id the store has, which also resets the project
StartProjectExists_Overwrites(p, doc) ==
    /\ Macrotask
    /\ dbStatus[p] # "absent"
    /\ dbStatus' = [dbStatus EXCEPT ![p] = "pending"]
    /\ sharedContext' = [sharedContext EXCEPT ![p] = NewContext]
    /\ scopingDocument' = [scopingDocument EXCEPT ![p] = doc]
    /\ status' = [status EXCEPT ![p] = "initializing"]
    /\ progress' = [progress EXCEPT ![p] = 0]
    /\ events' = emitEvent(events, p, "project:created")
    /\ UNCHANGED << returned, appendCalls, storeSources, metadata, cleanups, envVars,
                    findings, errors, report, agentStatus, storeFindings, batchVars,
                    taskQueue, runningTasks, activeProjects, currentPhase, pc, exc,
                    micro, faults >>

\* startProject with an id the store has: the INSERT of createProject raises on
\* the primary key, before anything is written, and startProject rejects
StartProjectExists(p, doc) ==
    /\ Macrotask
    /\ dbStatus[p] # "absent"
    /\ rejectedStarts' = rejectedStarts \cup {p}
    /\ UNCHANGED << returned, serverVars, storeVars, lastCall, http, maxConcurrentAgents, crashed,
                    pauseLog, dataVars, batchVars, taskQueue, runningTasks,
                    activeProjects, status, progress, currentPhase, dbStatus, events,
                    pc, exc, micro, faults >>

\* planResearch, first statement
PlanEnter(p) ==
    /\ Running(WfJob(p))
    /\ pc[p] = "plan_enter"
    /\ updateProjectStatus(p, "initializing", 5, "Planning research strategy")
    /\ pc' = [pc EXCEPT ![p] = "plan_build"]
    /\ UNCHANGED << returned, storeVars, envVars, dataVars, batchVars, taskQueue, runningTasks,
                    activeProjects, dbStatus, exc, micro, faults >>

\* the plan goes into the queue as it was built
PlanBuild_Unsorted(p) ==
    /\ Running(WfJob(p))
    /\ pc[p] = "plan_build"
    /\ ~IsMalformed(scopingDocument[p])
    /\ sharedContext' =
           LET tasks == PlannedTasks(p, scopingDocument[p])
           IN  updateSharedContext(sharedContext, p,
                   [pendingTasks |-> [i \in 1..Len(tasks) |-> PendingEntry(tasks[i])]])
    /\ taskQueue' = PlannedTasks(p, scopingDocument[p])
    /\ pc' = [pc EXCEPT ![p] = "plan_exit"]
    /\ UNCHANGED << returned, appendCalls, storeSources, metadata, cleanups, envVars, dataVars, batchVars, runningTasks, activeProjects,
                    status, progress, currentPhase, dbStatus, events, exc, micro, faults >>

\* planResearch: the task list, updateSharedContext, and the shared queue
PlanBuild(p) ==
    /\ Running(WfJob(p))
    /\ pc[p] = "plan_build"
    /\ ~IsMalformed(scopingDocument[p])
    /\ sharedContext' =
           LET tasks == PlannedTasks(p, scopingDocument[p])
           IN  updateSharedContext(sharedContext, p,
                   [pendingTasks |-> [i \in 1..Len(tasks) |-> PendingEntry(tasks[i])]])
    /\ taskQueue' = SortByPriority(PlannedTasks(p, scopingDocument[p]))
    /\ pc' = [pc EXCEPT ![p] = "plan_exit"]
    /\ UNCHANGED << returned, appendCalls, storeSources, metadata, cleanups, envVars, dataVars, batchVars, runningTasks, activeProjects,
                    status, progress, currentPhase, dbStatus, events, exc, micro, faults >>

\* planResearch: `for (const question of keyQuestions)` throws on a
\* keyQuestions that is not a list; the promise of planResearch rejects and
\* executeWorkflow catches it
PlanRaises(p) ==
    /\ Running(WfJob(p))
    /\ pc[p] = "plan_build"
    /\ IsMalformed(scopingDocument[p])
    /\ exc' = [exc EXCEPT ![p] = "not_iterable"]
    /\ pc' = [pc EXCEPT ![p] = "catch"]
    /\ micro' = << WfJob(p), CallerJob(p) >>
    /\ UNCHANGED << returned, storeVars, envVars, dataVars, batchVars, taskQueue, runningTasks,
                    activeProjects, status, progress, currentPhase, dbStatus, events,
                    faults >>

\* planResearch: memory.updateSharedContext throws
PlanStoreFails(p) ==
    /\ Running(WfJob(p))
    /\ pc[p] = "plan_build"
    /\ faults < MaxFaults
    /\ faults' = faults + 1
    /\ exc' = [exc EXCEPT ![p] = "store_error"]
    /\ pc' = [pc EXCEPT ![p] = "catch"]
    /\ micro' = << WfJob(p), CallerJob(p) >>
    /\ UNCHANGED << returned, storeVars, envVars, dataVars, batchVars, taskQueue, runningTasks,
                    activeProjects, status, progress, currentPhase, dbStatus, events >>

\* planResearch, last statement.  planResearch has no await: it ran inside the
\* call of startProject.  executeWorkflow awaits its promise and resumes in the
\* next microtask; startProject then returns, and its caller resumes after that
PlanExit(p) ==
    /\ Running(WfJob(p))
    /\ pc[p] = "plan_exit"
    /\ updateProjectStatus(p, "researching", 10, "Research plan created")
    /\ pc' = [pc EXCEPT ![p] = "primary_enter"]
    /\ micro' = << WfJob(p), CallerJob(p) >>
    /\ UNCHANGED << returned, storeVars, envVars, dataVars, batchVars, taskQueue, runningTasks,
                    activeProjects, dbStatus, exc, faults >>

\* the caller of startProject resumes with the project
StartReturns(p) ==
    /\ Running(CallerJob(p))
    /\ returned' = [returned EXCEPT ![p] =
                       [status |-> status[p], progress |-> progress[p],
                        dispatched |-> Cardinality(InFlight(p))]]
    /\ Leave
    /\ UNCHANGED << storeVars, envVars, dataVars, batchVars, taskQueue, runningTasks,
                    activeProjects, status, progress, currentPhase, dbStatus, events,
                    pc, exc, faults >>

(***************************************************************************)
(* The two batch phases.                                                   *)
(***************************************************************************)
EnterBatch(p, name, tasks) ==
    /\ phase' = [phase EXCEPT ![p] = name]
    /\ batch' = [batch EXCEPT ![p] = tasks]
    /\ idx' = [idx EXCEPT ![p] = 1]
    /\ completedTasks' = [completedTasks EXCEPT ![p] = 0]
    /\ progressEvents' = [progressEvents EXCEPT ![p] = << >>]
    /\ tstate' = [tstate EXCEPT ![p] = [i \in 1..Len(tasks) |-> "pending"]]
    /\ result' = [result EXCEPT ![p] = [i \in 1..Len(tasks) |-> NoResult]]
    /\ pc' = [pc EXCEPT ![p] = "loop"]

\* executePrimaryResearch up to the call of executeTaskBatch
PrimaryEnter(p) ==
    /\ Running(WfJob(p))
    /\ pc[p] = "primary_enter"
    /\ updateProjectStatus(p, "researching", 15, "Executing primary research")
    /\ EnterBatch(p, "primary", SelectSeq(taskQueue, IsPrimaryTask))
    /\ UNCHANGED << returned, storeVars, envVars, dataVars, taskQueue, runningTasks, activeProjects,
                    dbStatus, exc, micro, faults >>

\* executePrimaryResearch after the batch
PrimaryDone(p) ==
    /\ Running(WfJob(p))
    /\ pc[p] = "batch_done" /\ phase[p] = "primary"
    /\ updateProjectStatus(p, "researching", 40, "Primary research completed")
    /\ pc' = [pc EXCEPT ![p] = "deep_enter"]
    /\ Yield
    /\ UNCHANGED << returned, storeVars, envVars, dataVars, batchVars, taskQueue, runningTasks,
                    activeProjects, dbStatus, exc, faults >>

\* executeDeepAnalysis up to the call of executeTaskBatch
\* DeepEnter that reports the synthesizing status for the deep analysis
DeepEnter_SkipsAnalyzing(p) ==
    /\ Running(WfJob(p))
    /\ pc[p] = "deep_enter"
    /\ updateProjectStatus(p, "synthesizing", 45, "Executing deep analysis")
    /\ EnterBatch(p, "deep", SelectSeq(taskQueue, IsAnalysisTask))
    /\ UNCHANGED << returned, storeVars, envVars, dataVars, taskQueue, runningTasks, activeProjects,
                    dbStatus, exc, micro, faults >>

DeepEnter(p) ==
    /\ Running(WfJob(p))
    /\ pc[p] = "deep_enter"
    /\ updateProjectStatus(p, "analyzing", 45, "Executing deep analysis")
    /\ EnterBatch(p, "deep", SelectSeq(taskQueue, IsAnalysisTask))
    /\ UNCHANGED << returned, storeVars, envVars, dataVars, taskQueue, runningTasks, activeProjects,
                    dbStatus, exc, micro, faults >>

\* executeDeepAnalysis after the batch
DeepDone(p) ==
    /\ Running(WfJob(p))
    /\ pc[p] = "batch_done" /\ phase[p] = "deep"
    /\ updateProjectStatus(p, "analyzing", 70, "Deep analysis completed")
    /\ pc' = [pc EXCEPT ![p] = "report_enter"]
    /\ Yield
    /\ UNCHANGED << returned, storeVars, envVars, dataVars, batchVars, taskQueue, runningTasks,
                    activeProjects, dbStatus, exc, faults >>

(***************************************************************************)
(* executeTaskBatch and executeTask.                                       *)
(***************************************************************************)
AllFulfilled(ts) == \A i \in 1..Len(ts) : ts[i] = "fulfilled"

\* one turn of the for loop below the cap: the synchronous part of executeTask
\* (agent status, agent:started, the call of agent.execute), then runningTasks.add
Dispatch(p) ==
    /\ Running(WfJob(p))
    /\ pc[p] = "loop"
    /\ idx[p] <= Len(batch[p])
    /\ Cardinality(runningTasks) < maxConcurrentAgents
    /\ LET task == batch[p][idx[p]] IN
        /\ agentStatus' = [agentStatus EXCEPT ![p][task.agentType] = "active"]
        /\ events' = emitEvent(events, p, "agent:started")
        /\ tstate' = [tstate EXCEPT ![p][idx[p]] = "running"]
        /\ runningTasks' = runningTasks \cup {task.id}
    /\ idx' = [idx EXCEPT ![p] = @ + 1]
    /\ UNCHANGED << returned, storeVars, envVars, findings, errors, report, scopingDocument, storeFindings,
                    phase, batch, completedTasks, progressEvents, result, taskQueue, activeProjects,
                    status, progress, currentPhase, dbStatus, pc, exc, micro, faults >>

\* the while loop at the cap: await waitForAvailableSlot()
WaitSlot(p) ==
    /\ Running(WfJob(p))
    /\ pc[p] = "loop"
    /\ idx[p] <= Len(batch[p])
    /\ Cardinality(runningTasks) >= maxConcurrentAgents
    /\ pc' = [pc EXCEPT ![p] = "wait"]
    /\ Leave
    /\ UNCHANGED << returned, storeVars, envVars, dataVars, batchVars, taskQueue, runningTasks,
                    activeProjects, status, progress, currentPhase, dbStatus, events,
                    exc, faults >>

\* the timer of waitForAvailableSlot fires
TimerFire(p) ==
    /\ Macrotask
    /\ pc[p] = "wait"
    /\ pc' = [pc EXCEPT ![p] = "loop"]
    /\ micro' = << WfJob(p) >>
    /\ UNCHANGED << returned, storeVars, envVars, dataVars, batchVars, taskQueue, runningTasks,
                    activeProjects, status, progress, currentPhase, dbStatus, events,
                    exc, faults >>

\* await Promise.all(results), every task dispatched.  No element of `results`
\* is rejected at this point: a rejection before Promise.all ends the process
Join(p) ==
    /\ Running(WfJob(p))
    /\ pc[p] = "loop"
    /\ idx[p] > Len(batch[p])
    /\ IF AllFulfilled(tstate[p])
       THEN /\ pc' = [pc EXCEPT ![p] = "batch_done"]
            /\ Yield
       ELSE /\ pc' = [pc EXCEPT ![p] = "joined"]
            /\ Leave
    /\ UNCHANGED << returned, storeVars, envVars, dataVars, batchVars, taskQueue, runningTasks,
                    activeProjects, status, progress, currentPhase, dbStatus, events,
                    exc, faults >>

\* agent.execute resolves with success=true after it extracted n insights: the
\* last synchronous stretch of the agent (its insights and its completed task
\* go into the shared context of the task's project), and the rest of
\* executeTask
AgentCompletes(p, i, n) ==
    /\ LET task == batch[p][i] IN
        /\ sharedContext' = addCompletedTask(addInsights(sharedContext, task, 1, n),
                                             task.projectId, CompletedEntry(task))
        /\ appendCalls' = [appendCalls EXCEPT
                              ![task.projectId].discoveredInsights = @ + n,
                              ![task.projectId].completedTasks = @ + 1]
        /\ storeFindings' = [storeFindings EXCEPT
                                ![task.projectId] = Append(@, Finding(task, p))]
        /\ findings' = [findings EXCEPT ![p] = Append(@, Finding(task, p))]
        /\ events' = emitEvent(events, p, "finding:discovered")
        /\ agentStatus' = [agentStatus EXCEPT ![p][task.agentType] = "completed"]
    /\ result' = [result EXCEPT ![p][i] = [success |-> "true", error |-> ""]]
    /\ tstate' = [tstate EXCEPT ![p][i] = "returned_ok"]
    /\ micro' = << SettleJob(p, i) >>
    /\ UNCHANGED << returned, storeSources, metadata, cleanups, envVars, errors, report,
                    scopingDocument, phase, batch, idx, completedTasks, progressEvents, taskQueue,
                    runningTasks, activeProjects, status, progress, currentPhase,
                    dbStatus, pc, exc, faults >>

\* the agent extracted no insight
AgentSucceeds(p, i) ==
    /\ Macrotask
    /\ i \in 1..Len(tstate[p]) /\ tstate[p][i] = "running"
    /\ AgentCompletes(p, i, 0)

\* the agent extracted insights
AgentSucceedsWithInsights(p, i) ==
    /\ Macrotask
    /\ i \in 1..Len(tstate[p]) /\ tstate[p][i] = "running"
    /\ \E n \in 1..MaxInsights : AgentCompletes(p, i, n)

\* ids a source row can carry
SourceIds == 1..(MaxSources + 1)

\* the sources table declares id TEXT PRIMARY KEY; a row is
\* [id, projectId, title, relevanceScore]
RowIds(rows) == {rows[k].id : k \in 1..Len(rows)}

\* uuidv4(): an id no row carries
uuidv4(rows) == CHOOSE id \in SourceIds : id \notin RowIds(rows)

\* registerSource without the REPLACE of the row that carries the id
registerSource_Appends(rows, projectId, source) ==
    Append(rows, [id |-> source.id, projectId |-> projectId,
                  title |-> source.title, relevanceScore |-> source.relevanceScore])

\* INSERT OR REPLACE INTO sources: the row with the same id is deleted, whatever
\* its project, and the new row is inserted
registerSource(rows, projectId, source) ==
    Append(SelectSeq(rows, LAMBDA r : r.id # source.id),
           [id |-> source.id, projectId |-> projectId,
            title |-> source.title, relevanceScore |-> source.relevanceScore])

RECURSIVE InsertByRelevance(_, _)
InsertByRelevance(sorted, row) ==
    IF sorted = << >> THEN << row >>
    ELSE IF Head(sorted).relevanceScore >= row.relevanceScore
         THEN << Head(sorted) >> \o InsertByRelevance(Tail(sorted), row)
         ELSE << row >> \o sorted

RECURSIVE OrderByRelevance(_)
OrderByRelevance(rows) ==
    IF rows = << >> THEN << >>
    ELSE InsertByRelevance(OrderByRelevance(SubSeq(rows, 1, Len(rows) - 1)),
                           rows[Len(rows)])

\* SELECT * FROM sources WHERE project_id = ? ORDER BY relevance_score DESC
getSources(rows, projectId) ==
    OrderByRelevance(SelectSeq(rows, LAMBDA r : r.projectId = projectId))

\* the source a fetch_webpage tool call registers (relevanceScore 0.5, in tenths)
WebSource(id) == [id |-> id, title |-> "webpage", relevanceScore |-> 5]

\* a tool call of a running web researcher registers a source
RegisterSource(p, i) ==
    /\ Macrotask
    /\ i \in 1..Len(tstate[p]) /\ tstate[p][i] = "running"
    /\ batch[p][i].agentType = "web_researcher"
    /\ Len(getSources(storeSources, batch[p][i].projectId)) < MaxSources
    /\ RowIds(storeSources) # SourceIds
    /\ storeSources' = registerSource(storeSources, batch[p][i].projectId,
                                       WebSource(uuidv4(storeSources)))
    /\ UNCHANGED << returned, sharedContext, appendCalls, metadata, cleanups, envVars,
                    dataVars, batchVars, taskQueue, runningTasks, activeProjects, status,
                    progress, currentPhase, dbStatus, events, pc, exc, micro, faults >>

\* AgentFails without the push onto project.errors
AgentFails_NoErrorEntry(p, i, e) ==
    /\ Macrotask
    /\ i \in 1..Len(tstate[p]) /\ tstate[p][i] = "running"
    /\ faults < MaxFaults
    /\ faults' = faults + 1
    /\ events' = emitEvent(events, p, "agent:error")
    /\ agentStatus' = [agentStatus EXCEPT ![p][batch[p][i].agentType] = "error"]
    /\ result' = [result EXCEPT ![p][i] = [success |-> "false", error |-> e]]
    /\ tstate' = [tstate EXCEPT ![p][i] = "returned_ok"]
    /\ micro' = << SettleJob(p, i) >>
    /\ UNCHANGED << returned, storeVars, envVars, findings, errors, report, scopingDocument, storeFindings,
                    phase, batch, idx, completedTasks, progressEvents, taskQueue, runningTasks,
                    activeProjects, status, progress, currentPhase, dbStatus, pc, exc >>

\* agent.execute resolves with success=false and error e: the rest of executeTask
AgentFails(p, i, e) ==
    /\ Macrotask
    /\ i \in 1..Len(tstate[p]) /\ tstate[p][i] = "running"
    /\ faults < MaxFaults
    /\ faults' = faults + 1
    /\ LET task == batch[p][i] IN
        /\ errors' = [errors EXCEPT ![p] = Append(@,
                          [id |-> << p, task.id >>, agentId |-> task.agentType,
                           message |-> ErrorMessage(e), recoverable |-> TRUE])]
        /\ events' = emitEvent(events, p, "agent:error")
        /\ agentStatus' = [agentStatus EXCEPT ![p][task.agentType] = "error"]
    /\ result' = [result EXCEPT ![p][i] = [success |-> "false", error |-> e]]
    /\ tstate' = [tstate EXCEPT ![p][i] = "returned_ok"]
    /\ micro' = << SettleJob(p, i) >>
    /\ UNCHANGED << returned, storeVars, envVars, findings, report, scopingDocument, storeFindings, phase,
                    batch, idx, completedTasks, progressEvents, taskQueue, runningTasks, activeProjects,
                    status, progress, currentPhase, dbStatus, pc, exc >>

\* agent.execute rejects: the catch of executeTask, which rethrows
AgentRaises(p, i) ==
    /\ Macrotask
    /\ i \in 1..Len(tstate[p]) /\ tstate[p][i] = "running"
    /\ faults < MaxFaults
    /\ faults' = faults + 1
    /\ agentStatus' = [agentStatus EXCEPT ![p][batch[p][i].agentType] = "error"]
    /\ result' = [result EXCEPT ![p][i] = Raised]
    /\ tstate' = [tstate EXCEPT ![p][i] = "returned_err"]
    /\ micro' = << SettleJob(p, i) >>
    /\ UNCHANGED << returned, storeVars, envVars, findings, errors, report, scopingDocument, storeFindings,
                    phase, batch, idx, completedTasks, progressEvents, taskQueue, runningTasks,
                    activeProjects, status, progress, currentPhase, dbStatus, events,
                    pc, exc >>

\* Math.round of the quotient a / b of two naturals (halves round up)
MathRound(a, b) == (2 * a + b) \div (2 * b)

\* the payload with the percentage truncated
ProgressPayload_Truncates(completed, total) ==
    [completedTasks |-> completed, totalTasks |-> total,
     progress |-> (100 * completed) \div total]

\* the payload of agent:progress: completedTasks, totalTasks: tasks.length,
\* progress: Math.round((completedTasks / tasks.length) * 100)
ProgressPayload(completed, total) ==
    [completedTasks |-> completed, totalTasks |-> total,
     progress |-> MathRound(100 * completed, total)]

\* the .then callback alone, without the .finally that frees the slot
SettleFulfilled_KeepsSlot(p, i) ==
    /\ Running(SettleJob(p, i))
    /\ tstate[p][i] = "returned_ok"
    /\ completedTasks' = [completedTasks EXCEPT ![p] = @ + 1]
    /\ progressEvents' = [progressEvents EXCEPT ![p] =
                             Append(@, ProgressPayload(completedTasks[p] + 1, Len(batch[p])))]
    /\ events' = emitEvent(events, p, "agent:progress")
    /\ tstate' = [tstate EXCEPT ![p][i] = "fulfilled"]
    /\ IF pc[p] = "joined" /\ AllFulfilled(tstate'[p])
       THEN /\ pc' = [pc EXCEPT ![p] = "batch_done"]
            /\ micro' = Append(Tail(micro), WfJob(p))
       ELSE /\ Leave
            /\ UNCHANGED pc
    /\ UNCHANGED << returned, storeVars, envVars, dataVars, phase, batch, idx, result, taskQueue, runningTasks,
                    activeProjects, status, progress, currentPhase, dbStatus, exc,
                    faults >>

\* executeTask fulfilled: the .then callback, the .finally callback, and
\* Promise.all when the workflow is waiting in it
SettleFulfilled(p, i) ==
    /\ Running(SettleJob(p, i))
    /\ tstate[p][i] = "returned_ok"
    /\ completedTasks' = [completedTasks EXCEPT ![p] = @ + 1]
    /\ progressEvents' = [progressEvents EXCEPT ![p] =
                             Append(@, ProgressPayload(completedTasks[p] + 1, Len(batch[p])))]
    /\ events' = emitEvent(events, p, "agent:progress")
    /\ runningTasks' = runningTasks \ {batch[p][i].id}
    /\ tstate' = [tstate EXCEPT ![p][i] = "fulfilled"]
    /\ IF pc[p] = "joined" /\ AllFulfilled(tstate'[p])
       THEN /\ pc' = [pc EXCEPT ![p] = "batch_done"]
            /\ micro' = Append(Tail(micro), WfJob(p))
       ELSE /\ Leave
            /\ UNCHANGED pc
    /\ UNCHANGED << returned, storeVars, envVars, dataVars, phase, batch, idx, result, taskQueue,
                    activeProjects, status, progress, currentPhase, dbStatus, exc,
                    faults >>

\* true while the rejection of a task promise of p has a handler: Promise.all
\* has been called on `results`
HandlerAttached(p) == pc[p] \notin {"loop", "wait"}

\* executeTask rejected: .then is skipped, the .finally callback runs, and
\* Promise.all rejects when the workflow is waiting in it
SettleRejected(p, i) ==
    /\ Running(SettleJob(p, i))
    /\ tstate[p][i] = "returned_err"
    /\ HandlerAttached(p)
    /\ runningTasks' = runningTasks \ {batch[p][i].id}
    /\ tstate' = [tstate EXCEPT ![p][i] = "rejected"]
    /\ IF pc[p] = "joined"
       THEN /\ exc' = [exc EXCEPT ![p] = "agent_raised"]
            /\ pc' = [pc EXCEPT ![p] = "catch"]
            /\ micro' = Append(Tail(micro), WfJob(p))
       ELSE /\ Leave
            /\ UNCHANGED << pc, exc >>
    /\ UNCHANGED << returned, storeVars, envVars, dataVars, phase, batch, idx, completedTasks, progressEvents, result,
                    taskQueue, activeProjects, status, progress, currentPhase,
                    dbStatus, events, faults >>

\* executeTask rejected while the batch loop has not reached Promise.all: the
\* .finally callback runs, nothing handles the rejected promise when the
\* microtask queue has drained, and the runtime (node:20 of the Dockerfile, run
\* without --unhandled-rejections) raises it as an uncaught exception: the
\* process ends
UnhandledRejection(p, i) ==
    /\ Running(SettleJob(p, i))
    /\ tstate[p][i] = "returned_err"
    /\ ~HandlerAttached(p)
    /\ runningTasks' = runningTasks \ {batch[p][i].id}
    /\ tstate' = [tstate EXCEPT ![p][i] = "rejected"]
    /\ Leave
    /\ crashed' = TRUE
    /\ UNCHANGED << returned, storeVars, callVars, maxConcurrentAgents, pauseLog, dataVars, phase, batch, idx,
                    completedTasks, progressEvents, result, taskQueue, activeProjects, status, progress,
                    currentPhase, dbStatus, events, pc, exc, faults >>

(***************************************************************************)
(* Report generation, finalization, failure, pause.                        *)
(***************************************************************************)
RECURSIVE Reverse(_)
Reverse(seq) == IF seq = << >> THEN << >> ELSE Append(Reverse(Tail(seq)), Head(seq))

\* memory.getFindings(projectId): the rows of the project, newest first
getFindings(p) == Reverse(storeFindings[p])

ReportFinding(p) ==
    [id |-> << p, 0 >>, questionId |-> "report", task |-> << p, 0 >>,
     agentType |-> "report_generator", ranBy |-> p]

\* generateReport up to the await of reportAgent.execute
\* ReportEnter through the batch path: the report agent waits for a free slot
\* and occupies it
ReportEnter_TakesSlot(p) ==
    /\ Running(WfJob(p))
    /\ pc[p] = "report_enter"
    /\ Cardinality(runningTasks) < maxConcurrentAgents
    /\ runningTasks' = runningTasks \cup {ReportTask(p).id}
    /\ updateProjectStatus(p, "synthesizing", 75, "Generating research report")
    /\ agentStatus' = [agentStatus EXCEPT ![p]["report_generator"] = "active"]
    /\ pc' = [pc EXCEPT ![p] = "report_wait"]
    /\ Leave
    /\ UNCHANGED << returned, storeVars, envVars, findings, errors, report, scopingDocument, storeFindings,
                    batchVars, taskQueue, activeProjects, dbStatus, exc,
                    faults >>

ReportEnter(p) ==
    /\ Running(WfJob(p))
    /\ pc[p] = "report_enter"
    /\ updateProjectStatus(p, "synthesizing", 75, "Generating research report")
    /\ agentStatus' = [agentStatus EXCEPT ![p]["report_generator"] = "active"]
    /\ pc' = [pc EXCEPT ![p] = "report_wait"]
    /\ Leave
    /\ UNCHANGED << returned, storeVars, envVars, findings, errors, report, scopingDocument, storeFindings,
                    batchVars, taskQueue, runningTasks, activeProjects, dbStatus, exc,
                    faults >>

\* the report agent resolves with success=true and its final_report finding
ReportSucceeds(p) ==
    /\ Macrotask
    /\ pc[p] = "report_wait"
    /\ getFindings(p) # << >>
    /\ storeFindings' = [storeFindings EXCEPT ![p] = Append(@, ReportFinding(p))]
    /\ sharedContext' = addCompletedTask(sharedContext, p, CompletedEntry(ReportTask(p)))
    /\ appendCalls' = [appendCalls EXCEPT ![p].completedTasks = @ + 1]
    /\ report' = [report EXCEPT ![p] = "report"]
    /\ agentStatus' = [agentStatus EXCEPT ![p]["report_generator"] = "completed"]
    /\ events' = emitEvent(events, p, "report:completed")
    /\ pc' = [pc EXCEPT ![p] = "report_exit"]
    /\ micro' = << WfJob(p) >>
    /\ UNCHANGED << returned, storeSources, metadata, cleanups, envVars, findings, errors, scopingDocument, batchVars, taskQueue,
                    runningTasks, activeProjects, status, progress, currentPhase,
                    dbStatus, exc, faults >>

\* the store holds no finding of the project: the report agent throws 'No
\* findings available' inside its try and resolves with success=false
ReportNoFindings(p) ==
    /\ Macrotask
    /\ pc[p] = "report_wait"
    /\ getFindings(p) = << >>
    /\ agentStatus' = [agentStatus EXCEPT ![p]["report_generator"] = "error"]
    /\ pc' = [pc EXCEPT ![p] = "report_exit"]
    /\ micro' = << WfJob(p) >>
    /\ UNCHANGED << returned, storeVars, envVars, findings, errors, report, scopingDocument, storeFindings,
                    batchVars, taskQueue, runningTasks, activeProjects, status,
                    progress, currentPhase, dbStatus, events, exc, faults >>

\* ReportFails that calls the report agent again after the failure
ReportFails_Retries(p) ==
    /\ Macrotask
    /\ pc[p] = "report_wait"
    /\ getFindings(p) # << >>
    /\ faults < MaxFaults
    /\ faults' = faults + 1
    /\ storeFindings' = [storeFindings EXCEPT ![p] = Append(@, ReportFinding(p))]
    /\ agentStatus' = [agentStatus EXCEPT ![p]["report_generator"] = "error"]
    /\ pc' = [pc EXCEPT ![p] = "report_enter"]
    /\ micro' = << WfJob(p) >>
    /\ UNCHANGED << returned, storeVars, envVars, findings, errors, report, scopingDocument,
                    batchVars, taskQueue, runningTasks, activeProjects, status,
                    progress, currentPhase, dbStatus, events, exc >>

\* the report agent resolves with success=false for another reason: the chat
\* or the parse failed (nothing stored), or completeTask failed after the
\* final_report finding was stored
ReportFails(p) ==
    /\ Macrotask
    /\ pc[p] = "report_wait"
    /\ getFindings(p) # << >>
    /\ faults < MaxFaults
    /\ faults' = faults + 1
    /\ \E stored \in BOOLEAN :
          storeFindings' = [storeFindings EXCEPT
                               ![p] = IF stored THEN Append(@, ReportFinding(p)) ELSE @]
    /\ agentStatus' = [agentStatus EXCEPT ![p]["report_generator"] = "error"]
    /\ pc' = [pc EXCEPT ![p] = "report_exit"]
    /\ micro' = << WfJob(p) >>
    /\ UNCHANGED << returned, storeVars, envVars, findings, errors, report, scopingDocument,
                    batchVars, taskQueue, runningTasks, activeProjects, status,
                    progress, currentPhase, dbStatus, events, exc >>

\* the report agent rejects: the await in generateReport throws
ReportRaises(p) ==
    /\ Macrotask
    /\ pc[p] = "report_wait"
    /\ faults < MaxFaults
    /\ faults' = faults + 1
    /\ exc' = [exc EXCEPT ![p] = "agent_raised"]
    /\ pc' = [pc EXCEPT ![p] = "catch"]
    /\ micro' = << WfJob(p) >>
    /\ UNCHANGED << returned, storeVars, envVars, dataVars, batchVars, taskQueue, runningTasks,
                    activeProjects, status, progress, currentPhase, dbStatus, events >>

\* generateReport, last statement
ReportExit(p) ==
    /\ Running(WfJob(p))
    /\ pc[p] = "report_exit"
    /\ updateProjectStatus(p, "synthesizing", 90, "Report generated")
    /\ pc' = [pc EXCEPT ![p] = "finalize_enter"]
    /\ Yield
    /\ UNCHANGED << returned, storeVars, envVars, dataVars, batchVars, taskQueue, runningTasks,
                    activeProjects, dbStatus, exc, faults >>

\* finalizeProject, first statement
FinalizeEnter(p) ==
    /\ Running(WfJob(p))
    /\ pc[p] = "finalize_enter"
    /\ updateProjectStatus(p, "reviewing", 95, "Finalizing project")
    /\ pc' = [pc EXCEPT ![p] = "finalize_store"]
    /\ UNCHANGED << returned, storeVars, envVars, dataVars, batchVars, taskQueue, runningTasks,
                    activeProjects, dbStatus, exc, micro, faults >>

\* finalizeProject without the re-fetch of the findings
FinalizeStore_KeepsFindings(p) ==
    /\ Running(WfJob(p))
    /\ pc[p] = "finalize_store"
    /\ metadata' = [metadata EXCEPT ![p] =
                       [totalSources |-> Len(getSources(storeSources, p)), completedAt |-> TRUE]]
    /\ dbStatus' = [dbStatus EXCEPT ![p] = "completed"]
    /\ cleanups' = [cleanups EXCEPT ![p] = @ + 1]
    /\ pc' = [pc EXCEPT ![p] = "complete"]
    /\ UNCHANGED << returned, sharedContext, appendCalls, storeSources, envVars, dataVars,
                    batchVars, taskQueue, runningTasks, activeProjects,
                    status, progress, currentPhase, events, exc, micro, faults >>

\* finalizeProject: the reads of the store, the metadata, the store's status
\* update and the cleanup of the expired memories
FinalizeStore(p) ==
    /\ Running(WfJob(p))
    /\ pc[p] = "finalize_store"
    /\ findings' = [findings EXCEPT ![p] = getFindings(p)]
    /\ metadata' = [metadata EXCEPT ![p] =
                       [totalSources |-> Len(getSources(storeSources, p)), completedAt |-> TRUE]]
    /\ dbStatus' = [dbStatus EXCEPT ![p] = "completed"]
    /\ cleanups' = [cleanups EXCEPT ![p] = @ + 1]
    /\ pc' = [pc EXCEPT ![p] = "complete"]
    /\ UNCHANGED << returned, sharedContext, appendCalls, storeSources, envVars, errors, report, agentStatus, scopingDocument,
                    storeFindings, batchVars, taskQueue, runningTasks, activeProjects,
                    status, progress, currentPhase, events, exc, micro, faults >>

\* finalizeProject: a store operation throws
FinalizeStoreFails(p) ==
    /\ Running(WfJob(p))
    /\ pc[p] = "finalize_store"
    /\ faults < MaxFaults
    /\ faults' = faults + 1
    /\ exc' = [exc EXCEPT ![p] = "store_error"]
    /\ pc' = [pc EXCEPT ![p] = "catch"]
    /\ Yield
    /\ UNCHANGED << returned, storeVars, envVars, dataVars, batchVars, taskQueue, runningTasks,
                    activeProjects, status, progress, currentPhase, dbStatus, events >>

\* finalizeProject, last two statements; executeWorkflow returns
Complete(p) ==
    /\ Running(WfJob(p))
    /\ pc[p] = "complete"
    /\ status' = [status EXCEPT ![p] = "completed"]
    /\ progress' = [progress EXCEPT ![p] = 100]
    /\ currentPhase' = [currentPhase EXCEPT ![p] = "Research completed"]
    /\ events' = emitEvent(emitEvent(events, p, "project:updated"), p, "project:completed")
    /\ pc' = [pc EXCEPT ![p] = "done"]
    /\ Leave
    /\ UNCHANGED << returned, storeVars, envVars, dataVars, batchVars, taskQueue, runningTasks,
                    activeProjects, dbStatus, exc, faults >>

\* handleProjectError that also resets the progress of the project
handleProjectError_ResetsProgress(p) ==
    /\ Running(WfJob(p))
    /\ pc[p] = "catch"
    /\ status' = [status EXCEPT ![p] = "failed"]
    /\ errors' = [errors EXCEPT ![p] = Append(@,
                      [id |-> << p, << >> >>, agentId |-> "",
                       message |-> exc[p], recoverable |-> FALSE])]
    /\ dbStatus' = [dbStatus EXCEPT ![p] = "failed"]
    /\ events' = emitEvent(events, p, "project:failed")
    /\ exc' = [exc EXCEPT ![p] = NoException]
    /\ pc' = [pc EXCEPT ![p] = "done"]
    /\ progress' = [progress EXCEPT ![p] = 0]
    /\ Leave
    /\ UNCHANGED << returned, storeVars, envVars, findings, report, agentStatus, scopingDocument,
                    storeFindings, batchVars, taskQueue, runningTasks, activeProjects,
                    currentPhase, faults >>

\* the same entry marked recoverable
ProjectError_Recoverable(p, errorMessage) ==
    [id |-> << p, << >> >>, agentId |-> "", message |-> errorMessage, recoverable |-> TRUE]

\* the entry handleProjectError pushes on project.errors
ProjectError(p, errorMessage) ==
    [id |-> << p, << >> >>, agentId |-> "", message |-> errorMessage, recoverable |-> FALSE]

\* the catch of executeWorkflow: handleProjectError
handleProjectError(p) ==
    /\ Running(WfJob(p))
    /\ pc[p] = "catch"
    /\ status' = [status EXCEPT ![p] = "failed"]
    /\ errors' = [errors EXCEPT ![p] = Append(@, ProjectError(p, exc[p]))]
    /\ dbStatus' = [dbStatus EXCEPT ![p] = "failed"]
    /\ events' = emitEvent(events, p, "project:failed")
    /\ exc' = [exc EXCEPT ![p] = NoException]
    /\ pc' = [pc EXCEPT ![p] = "done"]
    /\ Leave
    /\ UNCHANGED << returned, storeVars, envVars, findings, report, agentStatus, scopingDocument,
                    storeFindings, batchVars, taskQueue, runningTasks, activeProjects,
                    progress, currentPhase, faults >>

\* the test of pauseProject without the two terminal statuses
CanPause_AnyStatus(p) == p \in activeProjects

\* the guard of pauseProject
CanPause(p) == p \in activeProjects /\ status[p] # "completed" /\ status[p] # "failed"

\* pauseProject that also drops the in-flight tasks of the project
pauseProject_Cancels(p) ==
    /\ Macrotask
    /\ Len(pauseLog) < MaxPauses
    /\ pauseLog' = Append(pauseLog,
                      [id |-> p, applied |-> CanPause(p), status |-> status[p],
                       inFlight |-> {<< phase[p], i >> : i \in InFlight(p)}])
    /\ IF CanPause(p)
       THEN /\ status' = [status EXCEPT ![p] = "paused"]
            /\ dbStatus' = [dbStatus EXCEPT ![p] = "paused"]
            /\ events' = emitEvent(events, p, "project:updated")
            /\ tstate' = [tstate EXCEPT ![p] =
                             [i \in DOMAIN @ |-> IF i \in InFlight(p) THEN "rejected" ELSE @[i]]]
            /\ runningTasks' = runningTasks \ {batch[p][i].id : i \in InFlight(p)}
       ELSE UNCHANGED << status, dbStatus, events, tstate, runningTasks >>
    /\ UNCHANGED << returned, storeVars, callVars, maxConcurrentAgents, crashed, dataVars, phase, batch, idx,
                    completedTasks, progressEvents, result, taskQueue, activeProjects, progress,
                    currentPhase, pc, exc, micro, faults >>

\* pauseProject: the status, the store row and project:updated, when the guard
\* holds; nothing otherwise
pauseProject(p) ==
    /\ Macrotask
    /\ Len(pauseLog) < MaxPauses
    /\ pauseLog' = Append(pauseLog,
                      [id |-> p, applied |-> CanPause(p), status |-> status[p],
                       inFlight |-> {<< phase[p], i >> : i \in InFlight(p)}])
    /\ IF CanPause(p)
       THEN /\ status' = [status EXCEPT ![p] = "paused"]
            /\ dbStatus' = [dbStatus EXCEPT ![p] = "paused"]
            /\ events' = emitEvent(events, p, "project:updated")
       ELSE UNCHANGED << status, dbStatus, events >>
    /\ UNCHANGED << returned, storeVars, callVars, maxConcurrentAgents, crashed, dataVars, batchVars, taskQueue,
                    runningTasks, activeProjects, progress, currentPhase, pc, exc,
                    micro, faults >>

(***************************************************************************)
(* Specification.                                                          *)
(***************************************************************************)
Next ==
    \/ \E p \in ProjectIds : \E doc \in DocsFor(p) : StartProject(p, doc)
    \/ \E p \in ProjectIds : PlanEnter(p)
    \/ \E p \in ProjectIds : PlanBuild(p)
    \/ \E p \in ProjectIds : PlanStoreFails(p)
    \/ \E p \in ProjectIds : PlanExit(p)
    \/ \E p \in ProjectIds : StartReturns(p)
    \/ \E p \in ProjectIds : PrimaryEnter(p)
    \/ \E p \in ProjectIds : PrimaryDone(p)
    \/ \E p \in ProjectIds : DeepEnter(p)
    \/ \E p \in ProjectIds : DeepDone(p)
    \/ \E p \in ProjectIds : Dispatch(p)
    \/ \E p \in ProjectIds : WaitSlot(p)
    \/ \E p \in ProjectIds : TimerFire(p)
    \/ \E p \in ProjectIds : Join(p)
    \/ \E p \in ProjectIds, i \in TaskSlots : AgentSucceeds(p, i)
    \/ \E p \in ProjectIds, i \in TaskSlots, e \in AgentErrors : AgentFails(p, i, e)
    \/ \E p \in ProjectIds, i \in TaskSlots : AgentRaises(p, i)
    \/ \E p \in ProjectIds, i \in TaskSlots : SettleFulfilled(p, i)
    \/ \E p \in ProjectIds, i \in TaskSlots : SettleRejected(p, i)
    \/ \E p \in ProjectIds, i \in TaskSlots : UnhandledRejection(p, i)
    \/ \E p \in ProjectIds : ReportEnter(p)
    \/ \E p \in ProjectIds : ReportSucceeds(p)
    \/ \E p \in ProjectIds : ReportNoFindings(p)
    \/ \E p \in ProjectIds : ReportFails(p)
    \/ \E p \in ProjectIds : ReportRaises(p)
    \/ \E p \in ProjectIds : ReportExit(p)
    \/ \E p \in ProjectIds : FinalizeEnter(p)
    \/ \E p \in ProjectIds : FinalizeStore(p)
    \/ \E p \in ProjectIds : FinalizeStoreFails(p)
    \/ \E p \in ProjectIds : Complete(p)
    \/ \E p \in ProjectIds : handleProjectError(p)
    \/ \E p \in ProjectIds : pauseProject(p)

Spec == Init /\ [][Next]_vars

(***************************************************************************)
(* The runs of an orchestrator that is given one project: every operation, *)
(* every failure and pauseProject occur; the other id stays unknown to the *)
(* orchestrator.                                                           *)
(***************************************************************************)
\* the id and the documents startProject is called with
SoloIds == {IdOrder[1]}
SoloDocs == Docs \cup {DocLeadership}

NextSolo ==
    \/ \E p \in SoloIds : \E doc \in SoloDocs : StartProject(p, doc)
    \/ \E p \in ProjectIds : PlanEnter(p)
    \/ \E p \in ProjectIds : PlanBuild(p)
    \/ \E p \in ProjectIds : PlanStoreFails(p)
    \/ \E p \in ProjectIds : PlanExit(p)
    \/ \E p \in ProjectIds : StartReturns(p)
    \/ \E p \in ProjectIds : PrimaryEnter(p)
    \/ \E p \in ProjectIds : PrimaryDone(p)
    \/ \E p \in ProjectIds : DeepEnter(p)
    \/ \E p \in ProjectIds : DeepDone(p)
    \/ \E p \in ProjectIds : Dispatch(p)
    \/ \E p \in ProjectIds : WaitSlot(p)
    \/ \E p \in ProjectIds : TimerFire(p)
    \/ \E p \in ProjectIds : Join(p)
    \/ \E p \in ProjectIds, i \in TaskSlots : AgentSucceeds(p, i)
    \/ \E p \in ProjectIds, i \in TaskSlots, e \in AgentErrors : AgentFails(p, i, e)
    \/ \E p \in ProjectIds, i \in TaskSlots : AgentRaises(p, i)
    \/ \E p \in ProjectIds, i \in TaskSlots : SettleFulfilled(p, i)
    \/ \E p \in ProjectIds, i \in TaskSlots : SettleRejected(p, i)
    \/ \E p \in ProjectIds, i \in TaskSlots : UnhandledRejection(p, i)
    \/ \E p \in ProjectIds : ReportEnter(p)
    \/ \E p \in ProjectIds : ReportSucceeds(p)
    \/ \E p \in ProjectIds : ReportNoFindings(p)
    \/ \E p \in ProjectIds : ReportFails(p)
    \/ \E p \in ProjectIds : ReportRaises(p)
    \/ \E p \in ProjectIds : ReportExit(p)
    \/ \E p \in ProjectIds : FinalizeEnter(p)
    \/ \E p \in ProjectIds : FinalizeStore(p)
    \/ \E p \in ProjectIds : FinalizeStoreFails(p)
    \/ \E p \in ProjectIds : Complete(p)
    \/ \E p \in ProjectIds : handleProjectError(p)
    \/ \E p \in ProjectIds : pauseProject(p)

SoloSpec == Init /\ [][NextSolo]_vars

(***************************************************************************)
(* Fairness: the event loop runs every ready continuation and every timer, *)
(* and an agent call that is awaited eventually settles.  Nothing obliges  *)
(* a caller to start or pause a project, or a failure to happen.           *)
(***************************************************************************)
Progress ==
    \/ \E p \in ProjectIds :
          \/ PlanEnter(p) \/ PlanBuild(p) \/ PlanExit(p) \/ StartReturns(p)
          \/ PrimaryEnter(p) \/ PrimaryDone(p) \/ DeepEnter(p) \/ DeepDone(p)
          \/ Dispatch(p) \/ WaitSlot(p) \/ TimerFire(p) \/ Join(p)
          \/ ReportEnter(p) \/ ReportExit(p)
          \/ FinalizeEnter(p) \/ FinalizeStore(p) \/ Complete(p)
          \/ handleProjectError(p)
    \/ \E p \in ProjectIds, i \in TaskSlots :
          \/ SettleFulfilled(p, i) \/ SettleRejected(p, i)

\* an awaited agent call settles; its callback is a macrotask, which the event
\* loop serves between the timers of a polling batch loop
AgentReturns ==
    \/ \E p \in ProjectIds : ReportSucceeds(p)
    \/ \E p \in ProjectIds : ReportNoFindings(p)
    \/ \E p \in ProjectIds, i \in TaskSlots : AgentSucceeds(p, i)

(***************************************************************************)
(* The runs in which every agent call returns normally (success=true or    *)
(* success=false), no store operation fails and nobody pauses.             *)
(***************************************************************************)
NextNormal ==
    \/ \E p \in ProjectIds : \E doc \in DocsFor(p) : StartProject(p, doc)
    \/ \E p \in ProjectIds : PlanEnter(p)
    \/ \E p \in ProjectIds : PlanBuild(p)
    \/ \E p \in ProjectIds : PlanExit(p)
    \/ \E p \in ProjectIds : StartReturns(p)
    \/ \E p \in ProjectIds : PrimaryEnter(p)
    \/ \E p \in ProjectIds : PrimaryDone(p)
    \/ \E p \in ProjectIds : DeepEnter(p)
    \/ \E p \in ProjectIds : DeepDone(p)
    \/ \E p \in ProjectIds : Dispatch(p)
    \/ \E p \in ProjectIds : WaitSlot(p)
    \/ \E p \in ProjectIds : TimerFire(p)
    \/ \E p \in ProjectIds : Join(p)
    \/ \E p \in ProjectIds, i \in TaskSlots : AgentSucceeds(p, i)
    \/ \E p \in ProjectIds, i \in TaskSlots, e \in AgentErrors : AgentFails(p, i, e)
    \/ \E p \in ProjectIds, i \in TaskSlots : SettleFulfilled(p, i)
    \/ \E p \in ProjectIds : ReportEnter(p)
    \/ \E p \in ProjectIds : ReportSucceeds(p)
    \/ \E p \in ProjectIds : ReportNoFindings(p)
    \/ \E p \in ProjectIds : ReportFails(p)
    \/ \E p \in ProjectIds : ReportExit(p)
    \/ \E p \in ProjectIds : FinalizeEnter(p)
    \/ \E p \in ProjectIds : FinalizeStore(p)
    \/ \E p \in ProjectIds : Complete(p)

FairNormalSpec ==
    Init /\ [][NextNormal]_vars /\ WF_vars(Progress) /\ SF_vars(AgentReturns)

(***************************************************************************)
(* The same normal runs with a wide plan: the second project has three     *)
(* analysis tasks, no agent call fails.                                    *)
(***************************************************************************)
WideDocsFor(p) == IF p = "p1" THEN {DocFinancial} ELSE {DocWide}

NextWide ==
    \/ \E p \in ProjectIds : \E doc \in WideDocsFor(p) : StartProject(p, doc)
    \/ \E p \in ProjectIds : PlanEnter(p)
    \/ \E p \in ProjectIds : PlanBuild(p)
    \/ \E p \in ProjectIds : PlanExit(p)
    \/ \E p \in ProjectIds : StartReturns(p)
    \/ \E p \in ProjectIds : PrimaryEnter(p)
    \/ \E p \in ProjectIds : PrimaryDone(p)
    \/ \E p \in ProjectIds : DeepEnter(p)
    \/ \E p \in ProjectIds : DeepDone(p)
    \/ \E p \in ProjectIds : Dispatch(p)
    \/ \E p \in ProjectIds : WaitSlot(p)
    \/ \E p \in ProjectIds : TimerFire(p)
    \/ \E p \in ProjectIds : Join(p)
    \/ \E p \in ProjectIds, i \in TaskSlots : AgentSucceeds(p, i)
    \/ \E p \in ProjectIds, i \in TaskSlots : SettleFulfilled(p, i)
    \/ \E p \in ProjectIds : ReportEnter(p)
    \/ \E p \in ProjectIds : ReportSucceeds(p)
    \/ \E p \in ProjectIds : ReportExit(p)
    \/ \E p \in ProjectIds : FinalizeEnter(p)
    \/ \E p \in ProjectIds : FinalizeStore(p)
    \/ \E p \in ProjectIds : Complete(p)

WideSpec == Init /\ [][NextWide]_vars

(***************************************************************************)
(* Definitions shared by the properties.                                   *)
(***************************************************************************)
Range(seq) == {seq[k] : k \in 1..Len(seq)}

\* the tasks of the running batch of p whose agent call is in progress
Executing(p) == {i \in 1..Len(tstate[p]) : tstate[p][i] = "running"}

\* the executeTaskBatch call of p has ended (returned or thrown)
BatchEnded(p) == phase[p] # "none" /\ pc[p] \notin {"loop", "wait", "joined"}

\* the error entries of p that executeTask recorded for slot i of its batch
TaskErrorEntries(p, i) ==
    {k \in 1..Len(errors[p]) : errors[p][k].id = << p, batch[p][i].id >>}

FatalEntries(p) == {k \in 1..Len(errors[p]) : ~errors[p][k].recoverable}

(***************************************************************************)
(* C1.  During a batch, the tasks of that batch that are dispatched and    *)
(* not finished never outnumber maxConcurrentAgents.                       *)
(***************************************************************************)
C1_BatchWithinCap ==
    \A p \in ProjectIds : Cardinality(Executing(p)) <= maxConcurrentAgents

(***************************************************************************)
(* C2.  Over all batches of all projects of the orchestrator, the agent    *)
(* task executions in flight never outnumber maxConcurrentAgents.          *)
(***************************************************************************)
C2_GlobalCap ==
    Cardinality(UNION {{<< p, i >> : i \in Executing(p)} : p \in ProjectIds})
        <= maxConcurrentAgents

(***************************************************************************)
(* C3.  Once a project is paused it stays paused: no step changes its      *)
(* status, its progress or its phase any more.                             *)
(***************************************************************************)
C3_PausedStaysPaused ==
    [][\A p \in ProjectIds :
          status[p] = "paused" =>
              /\ status'[p] = "paused"
              /\ progress'[p] = progress[p]
              /\ currentPhase'[p] = currentPhase[p]]_vars

(***************************************************************************)
(* C4.  pauseProject cancels nothing: the call leaves every task promise,  *)
(* the running set and the findings as they are; afterwards a task that    *)
(* was in flight at the call can still return, only its own agent call     *)
(* ends it, a successful return appends its finding to the project's       *)
(* findings, and settling removes its id from the running set.             *)
(***************************************************************************)
\* the tasks (project, slot) of a running batch that were in flight at a pause
PausedInFlight ==
    UNION {{<< pauseLog[k].id, t[2] >> :
               t \in {u \in pauseLog[k].inFlight : u[1] = phase[pauseLog[k].id]}} :
           k \in 1..Len(pauseLog)}

C4_StillReturnable ==
    \A t \in PausedInFlight :
        (Macrotask /\ tstate[t[1]][t[2]] = "running") => ENABLED AgentSucceeds(t[1], t[2])

C4_Step ==
    /\ Len(pauseLog') > Len(pauseLog) =>
          /\ tstate' = tstate /\ result' = result /\ batch' = batch
          /\ runningTasks' = runningTasks /\ findings' = findings
          /\ micro' = micro /\ pc' = pc
    /\ \A t \in PausedInFlight :
          LET p == t[1]
              i == t[2]
          IN  /\ tstate[p][i] = "running" =>
                    tstate'[p][i] \in {"running", "returned_ok", "returned_err"}
              /\ (tstate[p][i] = "running" /\ tstate'[p][i] # "running") =>
                    /\ result'[p][i] # NoResult
                    /\ result'[p][i].success = "true" =>
                          findings'[p] = Append(findings[p], Finding(batch[p][i], p))
              /\ tstate[p][i] \in {"returned_ok", "returned_err"} =>
                    \/ tstate'[p][i] = tstate[p][i]
                    \/ /\ tstate'[p][i] \in {"fulfilled", "rejected"}
                       /\ batch[p][i].id \notin runningTasks'

C4_PauseKeepsDispatchedWork == [](C4_StillReturnable) /\ [][C4_Step]_vars

C4_Witness ==
    \E t \in PausedInFlight :
        /\ tstate[t[1]][t[2]] = "fulfilled"
        /\ result[t[1]][t[2]].success = "true"
        /\ Finding(batch[t[1]][t[2]], t[1]) \in Range(findings[t[1]])
        /\ batch[t[1]][t[2]].id \notin runningTasks
        /\ status[t[1]] = "paused"

(***************************************************************************)
(* C5.  A batch task whose agent call raised has a recoverable error entry *)
(* in the project's error list, its exception does not leave               *)
(* executeTaskBatch, and the project is not failed by it.                  *)
(***************************************************************************)
C5_RaiseIsTaskLevel ==
    \A p \in ProjectIds : \A i \in DOMAIN tstate[p] :
        tstate[p][i] = "rejected" =>
            /\ \E k \in TaskErrorEntries(p, i) : errors[p][k].recoverable
            /\ pc[p] # "catch"
            /\ status[p] # "failed"

(***************************************************************************)
(* C6.  A failed task (success=false or raised) never prevents a sibling   *)
(* of its batch from running: the sibling is never left undispatched or    *)
(* unfinished in a process that has ended.                                 *)
(***************************************************************************)
C6_SiblingsStillRun ==
    \A p \in ProjectIds :
        (/\ \E i \in DOMAIN result[p] : result[p][i].success \in {"false", "raised"}
         /\ \E j \in DOMAIN tstate[p] : tstate[p][j] \in {"pending", "running"})
        => ~crashed

(***************************************************************************)
(* C7.  When executeTaskBatch has handed control back to the workflow, no  *)
(* task of that batch is still in flight.                                  *)
(***************************************************************************)
C7_BatchEndsDrained ==
    \A p \in ProjectIds : BatchEnded(p) => InFlight(p) = {}

(***************************************************************************)
(* C8.  A batch task whose agent returns success=false with message m has  *)
(* exactly one entry in the project's error list, with message m and       *)
(* recoverable=true; the project is not failed; and, every agent call      *)
(* returning normally, the project reaches completed.                      *)
(***************************************************************************)
HasTaskError(p) == \E k \in 1..Len(errors[p]) : errors[p][k].recoverable

C8_Recorded ==
    \A p \in ProjectIds : \A i \in DOMAIN result[p] :
        (result[p][i].success = "false" /\ result[p][i].error # "") =>
            /\ Cardinality(TaskErrorEntries(p, i)) = 1
            /\ \A k \in TaskErrorEntries(p, i) :
                  /\ errors[p][k].message = result[p][i].error
                  /\ errors[p][k].recoverable
            /\ status[p] # "failed"
            /\ FatalEntries(p) = {}

C8_FailedTaskIsRecoverable ==
    /\ [](C8_Recorded /\ \A p \in ProjectIds : Len(errors[p]) <= faults)
    /\ \A p \in ProjectIds : HasTaskError(p) ~> (status[p] = "completed")

C8_Witness ==
    \E p \in ProjectIds :
        /\ status[p] = "completed"
        /\ \E k \in 1..Len(errors[p]) :
              errors[p][k].message = "rate_limited" /\ errors[p][k].recoverable

(***************************************************************************)
(* C9.  An exception that escapes a phase arrives at the catch of          *)
(* executeWorkflow, which sets the status to failed, appends one entry     *)
(* with the exception's message and recoverable=false, emits               *)
(* project:failed once and ends the workflow without rethrowing: no phase  *)
(* runs afterwards, and a failed project has exactly one such entry.  An   *)
(* exception that a task of a batch phase has raised is never lost: once   *)
(* its promise is rejected the workflow is in its catch or the project is  *)
(* failed.                                                                 *)
(***************************************************************************)
C9_NoneLost ==
    \A p \in ProjectIds : \A i \in DOMAIN tstate[p] :
        tstate[p][i] = "rejected" => (pc[p] = "catch" \/ status[p] = "failed")

C9_Step ==
    \A p \in ProjectIds :
        /\ (exc[p] = NoException /\ exc'[p] # NoException) =>
              pc'[p] = "catch" /\ WfJob(p) \in Range(micro')
        /\ pc[p] = "catch" =>
              \/ pc'[p] = "catch" /\ status'[p] = status[p] /\ errors'[p] = errors[p]
              \/ /\ pc'[p] = "done"
                 /\ status'[p] = "failed"
                 /\ Len(errors'[p]) = Len(errors[p]) + 1
                 /\ SubSeq(errors'[p], 1, Len(errors[p])) = errors[p]
                 /\ errors'[p][Len(errors'[p])].message = exc[p]
                 /\ ~errors'[p][Len(errors'[p])].recoverable
                 /\ events'[p]["project:failed"] = events[p]["project:failed"] + 1
                 /\ crashed' = crashed
        /\ pc[p] = "done" =>
              /\ pc'[p] = "done"
              /\ phase'[p] = phase[p] /\ batch'[p] = batch[p] /\ idx'[p] = idx[p]
              /\ progress'[p] = progress[p]

C9_Failed ==
    \A p \in ProjectIds :
        /\ (pc[p] = "catch") = (exc[p] # NoException)
        /\ status[p] = "failed" =>
              /\ pc[p] = "done"
              /\ Cardinality(FatalEntries(p)) = 1
              /\ events[p]["project:failed"] = 1
              /\ events[p]["project:completed"] = 0

C9_EscapedExceptionFailsProject ==
    [](C9_Failed /\ C9_NoneLost) /\ [][C9_Step]_vars

(***************************************************************************)
(* C10.  completed and failed are terminal: no step changes a status that  *)
(* is completed or failed; a pauseProject call on such a project or on an  *)
(* unknown id changes no state and emits no event.                         *)
(***************************************************************************)
\* every variable but the history of the pause calls
programVars ==
    << maxConcurrentAgents, taskQueue, runningTasks, activeProjects, status, progress,
       currentPhase, findings, errors, report, agentStatus, scopingDocument,
       storeFindings, dbStatus, events, pc, phase, batch, idx, completedTasks, progressEvents, tstate,
       result, exc, micro, crashed, returned, sharedContext, appendCalls,
       storeSources, metadata, cleanups, faults >>

C10_Step ==
    /\ \A p \in ProjectIds :
          status[p] \in {"completed", "failed"} => status'[p] = status[p]
    /\ Len(pauseLog') > Len(pauseLog) =>
          LET id == pauseLog'[Len(pauseLog')].id
          IN  (id \notin activeProjects \/ status[id] \in {"completed", "failed"})
                  => UNCHANGED programVars

C10_TerminalStatus == [][C10_Step]_vars

C10_Witness ==
    \E k \in 1..Len(pauseLog) :
        /\ ~pauseLog[k].applied
        /\ status[pauseLog[k].id] \in {"completed", "failed"}

(***************************************************************************)
(* C11.  The progress of a project never decreases, in runs that complete, *)
(* fail or are paused alike; it only takes the values of the checkpoints   *)
(* 5, 10, 15, 40, 45, 70, 75, 90, 95, 100 after the initial 0, and a       *)
(* completed project has progress 100.                                     *)
(***************************************************************************)
C11_Checkpoints == {0, 5, 10, 15, 40, 45, 70, 75, 90, 95, 100}

C11_Step ==
    \A p \in ProjectIds :
        /\ progress'[p] >= progress[p]
        /\ progress'[p] \in C11_Checkpoints

C11_ProgressNeverDecreases ==
    /\ [][C11_Step]_vars
    /\ [](\A p \in ProjectIds : status[p] = "completed" => progress[p] = 100)

C11_Witness ==
    \E p \in ProjectIds :
        /\ status[p] = "completed" /\ progress[p] = 100
        /\ \E k \in 1..Len(pauseLog) : pauseLog[k].id = p /\ pauseLog[k].applied

(***************************************************************************)
(* C12.  A project has at most one report: project.report is set at most   *)
(* once, by generateReport while the report agent's call is awaited, and   *)
(* is never replaced (report:completed is emitted once with it); the store *)
(* holds at most one final_report finding of the project.                  *)
(***************************************************************************)
FinalReports(p) ==
    {k \in 1..Len(storeFindings[p]) : storeFindings[p][k].agentType = "report_generator"}

C12_Step ==
    \A p \in ProjectIds :
        /\ report[p] # "null" => report'[p] = report[p]
        /\ report'[p] # report[p] => pc[p] = "report_wait" /\ pc'[p] = "report_exit"

C12_Inv ==
    \A p \in ProjectIds :
        /\ Cardinality(FinalReports(p)) <= 1
        /\ events[p]["report:completed"] = (IF report[p] = "null" THEN 0 ELSE 1)
        /\ report[p] # "null" => Cardinality(FinalReports(p)) = 1

C12_AtMostOneReport == [](C12_Inv) /\ [][C12_Step]_vars

C12_Witness ==
    \E p \in ProjectIds :
        /\ status[p] = "completed" /\ report[p] # "null"
        /\ Cardinality(FinalReports(p)) = 1

(***************************************************************************)
(* C13.  When a project is completed in a run without failures, every task *)
(* that planning built for it has been dispatched to its agent exactly     *)
(* once: the store holds exactly one finding per planned task of the       *)
(* project (each execution that succeeds stores one under the task's       *)
(* project id).                                                            *)
(***************************************************************************)
\* the executions of task t recorded in the store
Executions(t) ==
    {k \in 1..Len(storeFindings[t.projectId]) : storeFindings[t.projectId][k].task = t.id}

C13_EachTaskOnce ==
    \A p \in ProjectIds :
        status[p] = "completed" =>
            \A t \in Range(PlannedTasks(p, scopingDocument[p])) :
                Cardinality(Executions(t)) = 1

(***************************************************************************)
(* C14.  Phases are separated by drained batches: no analysis task of a    *)
(* project is in flight together with a primary-research task of that      *)
(* project, and the report agent of a project is not awaited while a batch *)
(* task of that project is in flight.                                      *)
(***************************************************************************)
\* the task definitions in flight, in any batch of the orchestrator
InFlightTasks == UNION {{batch[q][j] : j \in InFlight(q)} : q \in ProjectIds}

C14_PhasesDrained ==
    \A p \in ProjectIds :
        LET mine == {t \in InFlightTasks : t.projectId = p}
        IN  /\ ~(\E t, u \in mine : IsAnalysisTask(t) /\ IsPrimaryTask(u))
            /\ pc[p] = "report_wait" => mine = {}

(***************************************************************************)
(* C15.  When every agent call returns (success=true or success=false)     *)
(* and no store operation fails, a project that has been started           *)
(* eventually is completed with progress 100, whatever the cap and the     *)
(* plan.                                                                   *)
(***************************************************************************)
C15_StartedCompletes ==
    \A p \in ProjectIds :
        (p \in activeProjects) ~> (status[p] = "completed" /\ progress[p] = 100)

\* one financial question, cap 1, both agents returned success=true
C15_Witness ==
    \E p \in ProjectIds :
        /\ maxConcurrentAgents = 1
        /\ scopingDocument[p] = DocFinancial
        /\ status[p] = "completed" /\ progress[p] = 100
        /\ errors[p] = << >>
        /\ completedTasks[p] = 1

(***************************************************************************)
(* C16.  When the caller of startProject receives the project, the project *)
(* still has the status and the progress it was created with               *)
(* (initializing, 0) and no task has been dispatched.                      *)
(***************************************************************************)
C16_ReturnsInitialState ==
    \A p \in ProjectIds :
        returned[p] # NotReturned =>
            /\ returned[p].status = "initializing"
            /\ returned[p].progress = 0
            /\ returned[p].dispatched = 0

(***************************************************************************)
(* The planning of one project over the bounded scoping documents: the     *)
(* input is drawn in the initial state, startProject takes it, and the run *)
(* stops when the plan is in the queue.                                    *)
(***************************************************************************)
NextPlan ==
    \/ \E p \in SoloIds : StartProject(p, scopingDocument[p])
    \/ \E p \in SoloIds : PlanEnter(p)
    \/ \E p \in SoloIds : PlanBuild(p)
    \/ \E p \in SoloIds : PlanExit(p)

\* the input of the run is any of the bounded scoping documents
PlanInit == \E doc \in CategoryDocs : InitState(doc)

PlanSpec == PlanInit /\ [][NextPlan]_vars

\* the number of agent types the table gives a category
TableAgents(category) ==
    IF category \in {"financial", "competitive", "market", "technology", "operational"}
    THEN 2 ELSE 1

RECURSIVE TableTasks(_)
\* the number of tasks the table gives a list of key questions
TableTasks(questions) ==
    IF questions = << >> THEN 0
    ELSE TableAgents(Head(questions).category) + TableTasks(Tail(questions))

\* the agent types of the tasks of the queue that answer no key question
Supplementary(queue) ==
    {queue[i].agentType : i \in {j \in 1..Len(queue) : ~queue[j].questionTask}}

\* p has planned: the queue holds its plan
Planned(p) == pc[p] \in {"plan_exit", "primary_enter"}

(***************************************************************************)
(* C17.  For a scoping document with N key questions, planning produces at *)
(* least N and at most 2*N+2 tasks: for each question the one or two tasks *)
(* of the category-to-agent-types table, plus one supplementary            *)
(* web_researcher task exactly when webSearch is enabled and one           *)
(* supplementary financial_analyst task exactly when financialReports is   *)
(* enabled.                                                                *)
(***************************************************************************)
C17_PlanSize ==
    \A p \in ProjectIds :
        Planned(p) =>
            LET doc == scopingDocument[p]
                N == Len(doc.keyQuestions)
                forQuestions == SelectSeq(taskQueue, LAMBDA t : t.questionTask)
                others == SelectSeq(taskQueue, LAMBDA t : ~t.questionTask)
            IN  /\ Len(taskQueue) >= N
                /\ Len(taskQueue) <= 2 * N + 2
                /\ Len(forQuestions) = TableTasks(doc.keyQuestions)
                /\ Len(others) = Cardinality(Supplementary(taskQueue))
                /\ ("web_researcher" \in Supplementary(taskQueue)) <=> doc.webSearch
                /\ ("financial_analyst" \in Supplementary(taskQueue)) <=> doc.financialReports
                /\ Supplementary(taskQueue) \subseteq {"web_researcher", "financial_analyst"}

\* the upper end of the range: MaxQuestions questions planned as 2*N+2 tasks
C17_Witness ==
    \E p \in ProjectIds :
        /\ Planned(p)
        /\ Len(scopingDocument[p].keyQuestions) = MaxQuestions
        /\ Len(taskQueue) = 2 * MaxQuestions + 2

(***************************************************************************)
(* One project over the bounded priorities, up to the dispatch of its      *)
(* first batch: the plan, the queue, and the batch taken from the queue.   *)
(* The run stops where the agents would return.                            *)
(***************************************************************************)
NextQueue ==
    \/ \E p \in SoloIds : StartProject(p, scopingDocument[p])
    \/ \E p \in SoloIds : PlanEnter(p)
    \/ \E p \in SoloIds : PlanBuild(p)
    \/ \E p \in SoloIds : PlanExit(p)
    \/ \E p \in SoloIds : StartReturns(p)
    \/ \E p \in SoloIds : PrimaryEnter(p)
    \/ \E p \in SoloIds : Dispatch(p)
    \/ \E p \in SoloIds : WaitSlot(p)
    \/ \E p \in SoloIds : TimerFire(p)
    \/ \E p \in SoloIds : Join(p)

\* the input of the run is any of the bounded scoping documents
QueueInit == \E doc \in PriorityDocs : InitState(doc)

QueueSpec == QueueInit /\ [][NextQueue]_vars

\* the priority of a question of the given tier
TierPriority(priority) ==
    CASE priority = "critical" -> 4
      [] priority = "high"     -> 3
      [] priority = "low"      -> 1
      [] OTHER                 -> 2

RECURSIVE QuestionOfSerial(_, _, _)
\* the index of the key question that the n-th planned task answers, counting
\* from question qi; 0 when the task is a supplementary one
QuestionOfSerial(questions, qi, n) ==
    IF qi > Len(questions) THEN 0
    ELSE IF n <= TableAgents(questions[qi].category) THEN qi
         ELSE QuestionOfSerial(questions, qi + 1, n - TableAgents(questions[qi].category))

\* the priority the n-th planned task of a document is to have
ExpectedPriority(doc, n) ==
    LET qi == QuestionOfSerial(doc.keyQuestions, 1, n)
    IN  IF qi = 0 THEN 2 ELSE TierPriority(doc.keyQuestions[qi].priority)

\* the position of the task with the given id in a sequence of tasks
PositionOf(tasks, id) == CHOOSE i \in 1..Len(tasks) : tasks[i].id = id

(***************************************************************************)
(* C18.  After planning, the queue is in non-increasing priority, a task's *)
(* priority being 4/3/2/1 for a critical/high/medium/low question and 2    *)
(* for an unspecified priority or a supplementary task; tasks of equal     *)
(* priority keep their planned order; and a batch holds its tasks in queue *)
(* order and dispatches them in that order.                                *)
(***************************************************************************)
C18_QueueOrder ==
    \A p \in ProjectIds :
        Planned(p) \/ pc[p] \in {"loop", "wait", "joined"} =>
            /\ \A i \in 1..Len(taskQueue) :
                   taskQueue[i].priority =
                       ExpectedPriority(scopingDocument[p], taskQueue[i].id[2])
            /\ \A i, j \in 1..Len(taskQueue) :
                   i < j =>
                       /\ taskQueue[i].priority >= taskQueue[j].priority
                       /\ taskQueue[i].priority = taskQueue[j].priority
                              => taskQueue[i].id[2] < taskQueue[j].id[2]
            /\ \A i, j \in 1..Len(batch[p]) :
                   i < j =>
                       /\ PositionOf(taskQueue, batch[p][i].id)
                              < PositionOf(taskQueue, batch[p][j].id)
                       /\ tstate[p][j] # "pending" => tstate[p][i] # "pending"

\* a low question planned before a critical one: the queue is not the planned
\* order, equal priorities are in it, and the second task of the batch is
\* dispatched
C18_Witness ==
    \E p \in ProjectIds :
        /\ pc[p] \in {"loop", "wait", "joined"}
        /\ Len(taskQueue) >= 3
        /\ taskQueue[1].id[2] > taskQueue[Len(taskQueue)].id[2]
        /\ \E i \in 1..(Len(taskQueue) - 1) :
               taskQueue[i].priority = taskQueue[i + 1].priority
        /\ \E i \in 1..Len(taskQueue) :
               /\ ~taskQueue[i].questionTask
               /\ \E j \in 1..Len(taskQueue) :
                      /\ taskQueue[j].questionTask
                      /\ scopingDocument[p].keyQuestions[
                             QuestionOfSerial(scopingDocument[p].keyQuestions, 1,
                                              taskQueue[j].id[2])].priority = Unspecified
        /\ Len(batch[p]) >= 2
        /\ tstate[p][2] = "running"

(***************************************************************************)
(* One project whose agents extract insights: the shared context under     *)
(* agents that run side by side and succeed or report a failure.           *)
(***************************************************************************)
NextContext ==
    \/ \E p \in SoloIds : \E doc \in SoloDocs : StartProject(p, doc)
    \/ \E p \in SoloIds : PlanEnter(p)
    \/ \E p \in SoloIds : PlanBuild(p)
    \/ \E p \in SoloIds : PlanExit(p)
    \/ \E p \in SoloIds : StartReturns(p)
    \/ \E p \in SoloIds : PrimaryEnter(p)
    \/ \E p \in SoloIds : PrimaryDone(p)
    \/ \E p \in SoloIds : DeepEnter(p)
    \/ \E p \in SoloIds : DeepDone(p)
    \/ \E p \in SoloIds : Dispatch(p)
    \/ \E p \in SoloIds : WaitSlot(p)
    \/ \E p \in SoloIds : TimerFire(p)
    \/ \E p \in SoloIds : Join(p)
    \/ \E p \in SoloIds, i \in TaskSlots : AgentSucceeds(p, i)
    \/ \E p \in SoloIds, i \in TaskSlots : AgentSucceedsWithInsights(p, i)
    \/ \E p \in SoloIds, i \in TaskSlots, e \in AgentErrors : AgentFails(p, i, e)
    \/ \E p \in SoloIds, i \in TaskSlots : SettleFulfilled(p, i)
    \/ \E p \in SoloIds : ReportEnter(p)
    \/ \E p \in SoloIds : ReportSucceeds(p)
    \/ \E p \in SoloIds : ReportExit(p)
    \/ \E p \in SoloIds : FinalizeEnter(p)
    \/ \E p \in SoloIds : FinalizeStore(p)
    \/ \E p \in SoloIds : Complete(p)

ContextSpec == Init /\ [][NextContext]_vars

(***************************************************************************)
(* C19.  addCompletedTask and addDiscoveredInsight lose no update: however *)
(* the agents of a project interleave, after k append calls on the         *)
(* project's shared context its completedTasks and discoveredInsights hold *)
(* the k appended entries, each once.                                      *)
(***************************************************************************)
C19_NoLostUpdate ==
    \A p \in ProjectIds :
        LET context == sharedContext[p]
        IN  /\ Len(context.completedTasks) = appendCalls[p].completedTasks
            /\ Len(context.discoveredInsights) = appendCalls[p].discoveredInsights
            /\ Cardinality(Range(context.completedTasks)) = Len(context.completedTasks)
            /\ Cardinality(Range(context.discoveredInsights))
                   = Len(context.discoveredInsights)

\* two agents ran side by side, both appended an insight and their task, and
\* the report agent appended its task after them
C19_Witness ==
    \E p \in ProjectIds :
        /\ maxConcurrentAgents >= 2
        /\ phase[p] = "deep"
        /\ Len(batch[p]) >= 2
        /\ appendCalls[p].discoveredInsights >= 2
        /\ appendCalls[p].completedTasks >= 4
        /\ \E i, j \in 1..Len(sharedContext[p].discoveredInsights) :
               /\ i < j
               /\ sharedContext[p].discoveredInsights[i][2]
                      = batch[p][2].id
               /\ sharedContext[p].discoveredInsights[j][2]
                      = batch[p][1].id

(***************************************************************************)
(* One project whose web researchers register sources: every run of        *)
(* SoloSpec, completed or failed, over a store that holds sources.         *)
(***************************************************************************)
NextFinal ==
    \/ NextSolo
    \/ \E p \in SoloIds, i \in TaskSlots : RegisterSource(p, i)

FinalSpec == Init /\ [][NextFinal]_vars

\* p becomes completed in this step
BecomesCompleted(p) == status[p] # "completed" /\ status'[p] = "completed"

C20_Step ==
    \A p \in ProjectIds :
        BecomesCompleted(p) =>
            /\ findings'[p] = Reverse(storeFindings'[p])
            /\ metadata'[p].totalSources = Len(getSources(storeSources', p))
            /\ metadata'[p].completedAt
            /\ cleanups'[p] = 1

\* a run that has not reached finalization has not called cleanExpiredMemories,
\* and no run calls it twice
C20_Inv ==
    \A p \in ProjectIds :
        /\ cleanups[p] <= 1
        /\ progress[p] < 95 => cleanups[p] = 0 /\ ~metadata[p].completedAt

(***************************************************************************)
(* C20.  When a project becomes completed, project.findings is the list    *)
(* getFindings of the store returns at that moment, metadata.totalSources  *)
(* is the number of sources the store holds for the project, completedAt   *)
(* is set, and cleanExpiredMemories has been called exactly once in the    *)
(* run; a run that fails before finalization never calls it.               *)
(***************************************************************************)
C20_CompletedFromStore == [][C20_Step]_vars /\ []C20_Inv

\* a completed project with two findings of agents and the report in the
\* store, newest first, and a registered source
C20_Witness ==
    \E p \in ProjectIds :
        /\ status[p] = "completed"
        /\ Len(findings[p]) >= 3
        /\ findings[p][1].agentType = "report_generator"
        /\ metadata[p].totalSources = MaxSources
        /\ cleanups[p] = 1

(***************************************************************************)
(* One project and callers that call startProject directly: with an id     *)
(* that exists, and with a scoping input that no parser has checked.       *)
(***************************************************************************)
NextDirect ==
    \/ NextSolo
    \/ \E p \in SoloIds : StartProject(p, DocMalformed)
    \/ \E p \in SoloIds : PlanRaises(p)
    \/ \E p \in SoloIds : \E doc \in SoloDocs : StartProjectExists(p, doc)

DirectSpec == Init /\ [][NextDirect]_vars

\* every variable of the program and of the store
C21_ProjectState ==
    << taskQueue, runningTasks, activeProjects, status, progress, currentPhase,
       findings, errors, report, agentStatus, scopingDocument, storeFindings,
       dbStatus, events, sharedContext, storeSources, metadata >>

C21_Step ==
    \A p \in ProjectIds :
        /\ p \in rejectedStarts' \ rejectedStarts => UNCHANGED C21_ProjectState
        /\ dbStatus[p] # "absent" =>
               /\ events'[p]["project:created"] = events[p]["project:created"]
               /\ dbStatus'[p] = "pending" => dbStatus[p] = "pending"
               /\ sharedContext'[p] = NewContext => sharedContext[p] = NewContext

(***************************************************************************)
(* C21.  Creating a project with an id that exists fails: startProject     *)
(* rejects, the project's in-memory state, its row and its shared context  *)
(* stay as they are, and no project:created is emitted.                    *)
(***************************************************************************)
C21_DuplicateIdRejected == [][C21_Step]_vars

\* a start with the id of a project that is researching was rejected
C21_Witness ==
    \E p \in ProjectIds :
        /\ p \in rejectedStarts
        /\ status[p] = "researching"
        /\ InFlight(p) # {}
        /\ events[p]["project:created"] = 1

Call(op, p, q, outcome, rows, ctx, prior) ==
    [op |-> op, project |-> p, question |-> q, outcome |-> outcome,
     rows |-> rows, context |-> ctx, prior |-> prior]

\* what no direct call of the store touches
orchestratorVars ==
    << returned, serverVars, appendCalls, metadata, cleanups, rejectedStarts, http,
       maxConcurrentAgents, crashed, pauseLog, dataVars, batchVars, taskQueue,
       runningTasks, activeProjects, status, progress, currentPhase, events, pc,
       exc, micro, faults >>

\* createProject: the projects row and its shared_context row; the INSERT raises
\* when the id is taken
CreateProject(p) ==
    /\ Macrotask
    /\ IF dbStatus[p] = "absent"
       THEN /\ dbStatus' = [dbStatus EXCEPT ![p] = "pending"]
            /\ sharedContext' = [sharedContext EXCEPT ![p] = NewContext]
            /\ lastCall' = Call("createProject", p, "", "returned", << >>, NoContext, 0)
       ELSE /\ lastCall' = Call("createProject", p, "", "raised", << >>, NoContext, 1)
            /\ UNCHANGED << dbStatus, sharedContext >>
    /\ UNCHANGED << storeSources, orchestratorVars >>

\* titles and relevance scores (in tenths) of the sources a caller registers
SourceTitles == {"report", "webpage"}
RelevanceScores == {5, 9}
\* source.id is '' (0 here) when the caller leaves the id to the store
NoId == 0

\* registerSource(projectId, source) for a project that exists
CallRegisterSource(p, id, title, score) ==
    /\ Macrotask
    /\ dbStatus[p] # "absent"
    /\ id = NoId => RowIds(storeSources) # SourceIds
    /\ LET source == [id |-> IF id = NoId THEN uuidv4(storeSources) ELSE id,
                      title |-> title, relevanceScore |-> score]
       IN  /\ storeSources' = registerSource(storeSources, p, source)
           /\ lastCall' = Call("registerSource", p, "", "returned",
                               << [id |-> source.id, projectId |-> p, title |-> title,
                                   relevanceScore |-> score] >>,
                               NoContext,
                               Len(SelectSeq(storeSources, LAMBDA r : r.id = source.id)))
    /\ UNCHANGED << dbStatus, sharedContext, orchestratorVars >>

\* getSources(projectId)
CallGetSources(p) ==
    /\ Macrotask
    /\ lastCall' = Call("getSources", p, "", "returned", getSources(storeSources, p),
                        NoContext, 0)
    /\ UNCHANGED << dbStatus, sharedContext, storeSources, orchestratorVars >>

NextSourceStore ==
    \/ \E p \in ProjectIds : CreateProject(p)
    \/ \E p \in ProjectIds : \E id \in SourceIds \cup {NoId} :
           \E title \in SourceTitles : \E score \in RelevanceScores :
               CallRegisterSource(p, id, title, score)
    \/ \E p \in ProjectIds : CallGetSources(p)

SourceStoreSpec == Init /\ [][NextSourceStore]_vars

\* the rows of a list carry pairwise different ids
DistinctIds(rows) ==
    \A j, k \in 1..Len(rows) : rows[j].id = rows[k].id => j = k

\* C23: the source registry never holds two sources with the same id: the list
\* getSources returns has at most one source per id, and after registerSource
\* the one row of the table with that id is the row just registered, so a
\* second registration of an id replaces the first (last write wins).
C23_OneSourcePerId ==
    /\ DistinctIds(storeSources)
    /\ \A p \in ProjectIds : DistinctIds(getSources(storeSources, p))
    /\ lastCall.op = "getSources" => DistinctIds(lastCall.rows)
    /\ lastCall.op = "registerSource" =>
           /\ SelectSeq(storeSources, LAMBDA r : r.id = lastCall.rows[1].id)
                  = lastCall.rows
           /\ \E k \in 1..Len(getSources(storeSources, lastCall.project)) :
                  getSources(storeSources, lastCall.project)[k] = lastCall.rows[1]

\* an id registered a second time, for another project and with other content
C23_Witness ==
    /\ lastCall.op = "registerSource" /\ lastCall.prior = 1
    /\ lastCall.project = "p2" /\ lastCall.rows[1].title = "report"
    /\ Len(storeSources) = 2
    /\ getSources(storeSources, "p1") # << >>

\* ids a caller of storeFinding can give a finding
FindingIds == {<< "f", k >> : k \in 1..MaxFindings}
\* finding.id is '' when the caller leaves the id to the store
NoFindingId == << "f", 0 >>
\* question ids of stored findings; '' satisfies question_id TEXT NOT NULL
QuestionIds == {"", "q-1", "general"}
\* the questionId argument left out (undefined)
NoQuestion == "undefined"

\* the rows of the findings table, of every project
AllFindings == UNION {Range(storeFindings[p]) : p \in ProjectIds}

\* storeFinding as an upsert (INSERT OR REPLACE): the row carrying the id goes
storeFinding_Replaces(tbl, projectId, finding) ==
    [p \in ProjectIds |->
        LET kept == SelectSeq(tbl[p], LAMBDA r : r.id # finding.id)
        IN  IF p = projectId THEN Append(kept, finding) ELSE kept]

\* INSERT INTO findings: the new row is the newest of its project; the INSERT
\* raises and writes nothing when a row carries the id (id TEXT PRIMARY KEY)
storeFinding(tbl, projectId, finding) ==
    IF \E p \in ProjectIds : \E r \in Range(tbl[p]) : r.id = finding.id
    THEN tbl
    ELSE [tbl EXCEPT ![projectId] = Append(@, finding)]

\* getFindings(projectId, questionId?): if (questionId) adds the filter, and
\* both undefined and '' are falsy; ORDER BY created_at DESC
getFindingsOf(tbl, projectId, questionId) ==
    IF questionId # NoQuestion /\ questionId # ""
    THEN SelectSeq(Reverse(tbl[projectId]), LAMBDA r : r.questionId = questionId)
    ELSE Reverse(tbl[projectId])

\* storeFinding(finding) for a project that exists
CallStoreFinding(p, id, q, agentType) ==
    /\ Macrotask
    /\ dbStatus[p] # "absent"
    /\ id = NoFindingId => \E f \in FindingIds : \A r \in AllFindings : r.id # f
    /\ LET fid == IF id = NoFindingId
                  THEN CHOOSE f \in FindingIds : \A r \in AllFindings : r.id # f
                  ELSE id
           finding == [id |-> fid, questionId |-> q, task |-> fid,
                       agentType |-> agentType, ranBy |-> p]
           taken == \E r \in AllFindings : r.id = fid
       IN  /\ storeFindings' = storeFinding(storeFindings, p, finding)
           /\ lastCall' = Call("storeFinding", p, q,
                               IF taken THEN "raised" ELSE "returned", << finding >>,
                               NoContext, IF taken THEN 1 ELSE 0)
    /\ UNCHANGED << returned, serverVars, storeVars, rejectedStarts, http, maxConcurrentAgents,
                    crashed, pauseLog, findings, errors, report, agentStatus,
                    scopingDocument, batchVars, taskQueue, runningTasks,
                    activeProjects, status, progress, currentPhase, dbStatus, events,
                    pc, exc, micro, faults >>

\* a getFindings that removes the rows it returns
CallGetFindings_Consumes(p, q) ==
    /\ Macrotask
    /\ lastCall' = Call("getFindings", p, q, "returned",
                        getFindingsOf(storeFindings, p, q), NoContext, 0)
    /\ storeFindings' = [storeFindings EXCEPT ![p] =
                            SelectSeq(@, LAMBDA r : r \notin
                                Range(getFindingsOf(storeFindings, p, q)))]
    /\ UNCHANGED << returned, serverVars, storeVars, rejectedStarts, http, maxConcurrentAgents,
                    crashed, pauseLog, findings, errors, report, agentStatus,
                    scopingDocument, batchVars, taskQueue, runningTasks,
                    activeProjects, status, progress, currentPhase, dbStatus, events,
                    pc, exc, micro, faults >>

\* getFindings(projectId, questionId?)
CallGetFindings(p, q) ==
    /\ Macrotask
    /\ lastCall' = Call("getFindings", p, q, "returned",
                        getFindingsOf(storeFindings, p, q), NoContext, 0)
    /\ UNCHANGED << dbStatus, sharedContext, storeSources, orchestratorVars >>

NextFindingStore ==
    \/ \E p \in ProjectIds : CreateProject(p)
    \/ \E p \in ProjectIds : \E id \in FindingIds \cup {NoFindingId} :
           \E q \in QuestionIds : CallStoreFinding(p, id, q, "web_researcher")
    \/ \E p \in ProjectIds : \E q \in QuestionIds \cup {NoQuestion} : CallGetFindings(p, q)

FindingStoreSpec == Init /\ [][NextFindingStore]_vars

\* seq is an initial part of longer
IsPrefix(seq, longer) ==
    Len(seq) <= Len(longer) /\ SubSeq(longer, 1, Len(seq)) = seq

\* what a read returned, against the table: only rows of the project asked
\* for, and all of them when no question id was given
C24_Reads ==
    lastCall.op = "getFindings" =>
        /\ Range(lastCall.rows) \subseteq Range(storeFindings[lastCall.project])
        /\ \A p \in ProjectIds \ {lastCall.project} :
               \A r \in Range(storeFindings[p]) :
                   \A k \in 1..Len(lastCall.rows) : lastCall.rows[k].id # r.id
        /\ lastCall.question = NoQuestion =>
               Range(lastCall.rows) = Range(storeFindings[lastCall.project])

\* getFindings(P, q) returns a stored finding of P exactly when its question
\* id is q
C24_FilterExact(qs) ==
    lastCall.op = "getFindings" /\ lastCall.question \in qs =>
        \A r \in Range(storeFindings[lastCall.project]) :
            r \in Range(lastCall.rows) <=> r.questionId = lastCall.question

\* C24 as stated: a stored finding of P is returned by getFindings(P), by
\* getFindings(P, q) exactly when its question id is q, for every q, and by no
\* read of another project; and stored findings are never changed or removed.
C24_VisibleFilteredKept ==
    [][/\ \A p \in ProjectIds : IsPrefix(storeFindings[p], storeFindings'[p])
       /\ C24_Reads'
       /\ C24_FilterExact(QuestionIds)']_vars

\* C24 as amended: the same with the filter exact for every non-empty q; an
\* empty q is no filter.
C24_VisibleFilteredNonEmpty ==
    [][/\ \A p \in ProjectIds : IsPrefix(storeFindings[p], storeFindings'[p])
       /\ C24_Reads'
       /\ C24_FilterExact(QuestionIds \ {""})'
       /\ lastCall'.op = "getFindings" /\ lastCall'.question = "" =>
              Range(lastCall'.rows) = Range(storeFindings'[lastCall'.project])]_vars

\* a read by question id returns the finding of the project while the other
\* project holds a finding too
C24_Witness ==
    /\ lastCall.op = "getFindings" /\ lastCall.question = "q-1"
    /\ Len(lastCall.rows) = 1
    /\ Len(storeFindings[lastCall.project]) = 1
    /\ \E p \in ProjectIds \ {lastCall.project} : Len(storeFindings[p]) = 1

CallTask(p) == << "pending", << p, 1 >>, 0 >>
CallInsight(p) == << "insight", << p, 1 >>, 1 >>
\* the updates a caller of updateSharedContext passes
CallUpdates(p) ==
    {[pendingTasks |-> << CallTask(p) >>],
     [completedTasks |-> << >>, discoveredInsights |-> << >>]}

\* what no call of a shared-context operation touches
nonContextVars == << dbStatus, storeSources, orchestratorVars >>

\* getSharedContext(projectId): null (NoContext) when the project has no row
CallGetSharedContext(p) ==
    /\ Macrotask
    /\ lastCall' = Call("getSharedContext", p, "", "returned", << >>,
                        sharedContext[p], 0)
    /\ UNCHANGED << sharedContext, nonContextVars >>

\* updateSharedContext(projectId, updates)
CallUpdateSharedContext(p, updates) ==
    /\ Macrotask
    /\ sharedContext' = updateSharedContext(sharedContext, p, updates)
    /\ lastCall' = Call("updateSharedContext", p, "", "returned", << >>, NoContext, 0)
    /\ UNCHANGED nonContextVars

\* addCompletedTask(projectId, task)
CallAddCompletedTask(p) ==
    /\ Macrotask
    /\ Len(sharedContext[p].completedTasks) < MaxEntries
    /\ sharedContext' = addCompletedTask(sharedContext, p, CallTask(p))
    /\ lastCall' = Call("addCompletedTask", p, "", "returned", << >>, NoContext, 0)
    /\ UNCHANGED nonContextVars

\* addDiscoveredInsight(projectId, insight)
CallAddDiscoveredInsight(p) ==
    /\ Macrotask
    /\ Len(sharedContext[p].discoveredInsights) < MaxEntries
    /\ sharedContext' = addDiscoveredInsight(sharedContext, p, CallInsight(p))
    /\ lastCall' = Call("addDiscoveredInsight", p, "", "returned", << >>, NoContext, 0)
    /\ UNCHANGED nonContextVars

NextContextStore ==
    \/ \E p \in ProjectIds : CreateProject(p)
    \/ \E p \in ProjectIds : CallGetSharedContext(p)
    \/ \E p \in ProjectIds : \E updates \in CallUpdates(p) :
           CallUpdateSharedContext(p, updates)
    \/ \E p \in ProjectIds : CallAddCompletedTask(p)
    \/ \E p \in ProjectIds : CallAddDiscoveredInsight(p)

ContextStoreSpec == Init /\ [][NextContextStore]_vars

ContextOps ==
    {"getSharedContext", "updateSharedContext", "addCompletedTask",
     "addDiscoveredInsight"}

\* C26: the shared-context operations tolerate a missing project: on a project
\* id without a row getSharedContext returns null, and updateSharedContext,
\* addCompletedTask and addDiscoveredInsight return without raising and leave
\* the store as it was.
C26_MissingProjectTolerated ==
    [][lastCall'.op \in ContextOps /\ dbStatus[lastCall'.project] = "absent" =>
           /\ lastCall'.outcome = "returned"
           /\ lastCall'.op = "getSharedContext" => lastCall'.context = NoContext
           /\ UNCHANGED << sharedContext, dbStatus, storeFindings, storeSources >>]_vars

\* addCompletedTask was called for a project that does not exist while the
\* other project's context holds a completed task
C26_Witness ==
    /\ lastCall.op = "addCompletedTask"
    /\ dbStatus[lastCall.project] = "absent"
    /\ sharedContext[lastCall.project] = NoContext
    /\ \E p \in ProjectIds : sharedContext[p].completedTasks # << >>

\* C27: agent lifecycle events are complete: each agent:started is followed by
\* an agent:completed or an agent:error of the same project, so once a project
\* has completed, with no task left running, it has emitted as many
\* agent:completed and agent:error events as agent:started events.
C27_AgentEventsComplete ==
    \A p \in ProjectIds :
        status[p] = "completed" /\ (\A i \in 1..Len(tstate[p]) : tstate[p][i] # "running") =>
            events[p]["agent:started"]
                = events[p]["agent:completed"] + events[p]["agent:error"]

\* ---------------------------------------------------------------------------
\* The API server's authentication middleware.  A path and a header are the
\* sequences of the pieces they are written with: "/api/health" is
\* << "/", "api", "/", "health" >>.
\* ---------------------------------------------------------------------------
ApiPath(name) == << "/", "api", "/", name >>

RequestPaths ==
    {ApiPath("health"), ApiPath("health") \o << "/" >>,
     ApiPath("health") \o << "/", "db" >>, ApiPath("health") \o << "z" >>,
     ApiPath("templates"), ApiPath("templates") \o << "/", "scoping" >>,
     ApiPath("projects"), ApiPath("projects") \o << "/", "p1", "/", "findings" >>,
     << "/" >>}

\* Authorization headers; << >> is a request without the header
AuthorizationHeaders ==
    {<< >>, << "Basic", " ", "good" >>, << "Bearer", " ", "good" >>,
     << "bearer", " ", "good" >>, << "Bearer", " ", "expired" >>,
     << "Bearer", " ", "good", " ", "x" >>, << "Bearer", " " >>, << "Bearer" >>,
     << "good" >>}

\* the access tokens oauth2Client.getTokenInfo accepts
ValidTokens == {<< "good" >>}

ProjectHeaders == {"", "gcp-x"}
\* config.projectId || process.env.GCP_PROJECT_ID
DefaultProjectIds == {"", "gcp-default"}

\* allowUnauthenticatedPaths of the server
allowUnauthenticatedPaths == {ApiPath("health"), ApiPath("templates")}

\* String.startsWith
startsWith(str, prefix) ==
    Len(prefix) <= Len(str) /\ SubSeq(str, 1, Len(prefix)) = prefix

\* the path test without the '/' after the allowed path
isAllowedPath_AnyPrefix(reqPath) ==
    \E path \in allowUnauthenticatedPaths :
        reqPath = path \/ startsWith(reqPath, path)

\* allowedPaths.some(path => req.path === path || req.path.startsWith(path + '/'))
isAllowedPath(reqPath) ==
    \E path \in allowUnauthenticatedPaths :
        reqPath = path \/ startsWith(reqPath, Append(path, "/"))

RECURSIVE split(_, _)
\* String.split(separator): the pieces between the separators
split(str, sep) ==
    IF \A k \in 1..Len(str) : str[k] # sep THEN << str >>
    ELSE LET k == CHOOSE j \in 1..Len(str) :
                      str[j] = sep /\ \A i \in 1..(j - 1) : str[i] # sep
         IN  << SubSeq(str, 1, k - 1) >> \o split(SubSeq(str, k + 1, Len(str)), sep)

\* String.toLowerCase on the pieces the headers are written with
toLowerCase(str) ==
    [k \in 1..Len(str) |->
        CASE str[k] = "Bearer" -> "bearer"
          [] str[k] = "Basic" -> "basic"
          [] OTHER -> str[k]]

\* extractBearerToken: null (<< >>) unless the header is two pieces, the first
\* one "bearer" in any case; an empty token is falsy for the caller
extractBearerToken(authHeader) ==
    IF authHeader = << >> THEN << >>
    ELSE LET parts == split(authHeader, " ")
         IN  IF Len(parts) # 2 \/ toLowerCase(parts[1]) # << "bearer" >>
             THEN << >>
             ELSE parts[2]

authVars ==
    << returned, serverVars, storeVars, rejectedStarts, lastCall, maxConcurrentAgents, crashed,
       pauseLog, dataVars, batchVars, taskQueue, runningTasks, activeProjects,
       status, progress, currentPhase, dbStatus, events, pc, exc, micro, faults >>

\* a request arrives at the middleware
Receive(path, authorization, projectHeader, defaultProjectId) ==
    /\ http.stage \in {"none", "responded", "handler"}
    /\ http' = [path |-> path, authorization |-> authorization,
                projectHeader |-> projectHeader,
                defaultProjectId |-> defaultProjectId,
                stage |-> "received", status |-> 0, gcpAuth |-> NoAuth]
    /\ UNCHANGED authVars

\* an allowed path skips authentication: next()
SkipAuthentication ==
    /\ http.stage = "received"
    /\ isAllowedPath(http.path)
    /\ http' = [http EXCEPT !.stage = "handler"]
    /\ UNCHANGED authVars

\* no access token in the header: 401
RejectMissingToken ==
    /\ http.stage = "received"
    /\ ~isAllowedPath(http.path)
    /\ extractBearerToken(http.authorization) = << >>
    /\ http' = [http EXCEPT !.stage = "responded", !.status = 401]
    /\ UNCHANGED authVars

\* await validateAccessToken(accessToken)
ValidateToken ==
    /\ http.stage = "received"
    /\ ~isAllowedPath(http.path)
    /\ extractBearerToken(http.authorization) # << >>
    /\ http' = [http EXCEPT !.stage = "validating"]
    /\ UNCHANGED authVars

\* !tokenInfo.valid: 401
RejectInvalidToken ==
    /\ http.stage = "validating"
    /\ extractBearerToken(http.authorization) \notin ValidTokens
    /\ http' = [http EXCEPT !.stage = "responded", !.status = 401]
    /\ UNCHANGED authVars

\* req.headers['x-gcp-project-id'] || defaultProjectId
requestProjectId(req) ==
    IF req.projectHeader # "" THEN req.projectHeader ELSE req.defaultProjectId

\* no project id: 400
RejectNoProject ==
    /\ http.stage = "validating"
    /\ extractBearerToken(http.authorization) \in ValidTokens
    /\ requestProjectId(http) = ""
    /\ http' = [http EXCEPT !.stage = "responded", !.status = 400]
    /\ UNCHANGED authVars

\* the auth context is attached and next() passes the request on
Authenticated ==
    /\ http.stage = "validating"
    /\ extractBearerToken(http.authorization) \in ValidTokens
    /\ requestProjectId(http) # ""
    /\ http' = [http EXCEPT !.stage = "handler",
                            !.gcpAuth = [projectId |-> requestProjectId(http),
                                         accessToken |->
                                             extractBearerToken(http.authorization)]]
    /\ UNCHANGED authVars

NextAuth ==
    \/ \E path \in RequestPaths : \E authorization \in AuthorizationHeaders :
           \E projectHeader \in ProjectHeaders :
               \E defaultProjectId \in DefaultProjectIds :
                   Receive(path, authorization, projectHeader, defaultProjectId)
    \/ SkipAuthentication
    \/ RejectMissingToken
    \/ ValidateToken
    \/ RejectInvalidToken
    \/ RejectNoProject
    \/ Authenticated

AuthSpec == Init /\ [][NextAuth]_vars

\* the request paths that are /api/health or /api/templates or below them
ExemptPaths ==
    {<< "/", "api", "/", "health" >>, << "/", "api", "/", "health", "/" >>,
     << "/", "api", "/", "health", "/", "db" >>,
     << "/", "api", "/", "templates" >>,
     << "/", "api", "/", "templates", "/", "scoping" >>}

\* the headers that carry a Bearer token that validates
ValidBearerHeaders == {<< "Bearer", " ", "good" >>, << "bearer", " ", "good" >>}

\* C28: a request whose path is not /api/health or /api/templates or below
\* them reaches a route handler only with a Bearer token that validates and a
\* GCP project id from the header or the configuration; otherwise it is
\* answered 401 (token missing or invalid) or 400 (no project id), and the
\* handler is not run.
C28_AuthBeforeHandler ==
    /\ http.stage = "handler" /\ http.path \notin ExemptPaths =>
           /\ http.authorization \in ValidBearerHeaders
           /\ http.projectHeader # "" \/ http.defaultProjectId # ""
    /\ http.stage = "responded" =>
           /\ http.path \notin ExemptPaths
           /\ IF http.authorization \notin ValidBearerHeaders
              THEN http.status = 401
              ELSE /\ http.status = 400
                   /\ http.projectHeader = "" /\ http.defaultProjectId = ""

\* a request for the project list with a valid token and no project header
\* reached the handler under the configured project id
C28_Witness ==
    /\ http.stage = "handler"
    /\ http.path = << "/", "api", "/", "projects" >>
    /\ http.projectHeader = ""
    /\ http.gcpAuth.projectId = "gcp-default"

\* the place of a status in pending, initializing, ..., completed; a project
\* that startProject has not created yet ("absent") stands before them all
StatusRank(st) ==
    CASE st \in {"absent", "pending"} -> 0
      [] st = "initializing" -> 1
      [] st = "researching" -> 2
      [] st = "analyzing" -> 3
      [] st = "synthesizing" -> 4
      [] st = "reviewing" -> 5
      [] st = "completed" -> 6
      [] OTHER -> 7

\* the status of p leaving aside paused: the status the last pause that found
\* p unpaused replaced, while p is paused
PhaseStatusIn(st, log, p) ==
    IF st[p] # "paused" THEN st[p]
    ELSE LET ks == {k \in 1..Len(log) :
                       log[k].id = p /\ log[k].applied /\ log[k].status # "paused"}
         IN  IF ks = {} THEN "paused"
             ELSE log[CHOOSE k \in ks : \A j \in ks : j <= k].status

C29_Step ==
    \A p \in ProjectIds :
        LET before == PhaseStatusIn(status, pauseLog, p)
            after  == PhaseStatusIn(status', pauseLog', p)
        IN  /\ before # "failed" /\ after # "failed" =>
                   /\ before # "paused" /\ after # "paused"
                   /\ StatusRank(after) \in {StatusRank(before), StatusRank(before) + 1}
            /\ status'[p] \in {"failed", "paused"} /\ status[p] # status'[p] =>
                   status[p] \notin {"completed", "failed"}

\* C29: leaving aside paused and failed, the status of a project moves
\* forward through initializing, researching, analyzing, synthesizing,
\* reviewing, completed one step at a time, never back and never skipping
\* one; failed and paused are entered only from a non-terminal status.
C29_StatusForward == [][C29_Step]_vars

\* a project paused during research went on and completed
C29_Witness ==
    \E p \in ProjectIds :
        /\ status[p] = "completed"
        /\ \E k \in 1..Len(pauseLog) :
               pauseLog[k].id = p /\ pauseLog[k].applied
               /\ pauseLog[k].status = "researching"

\* one project whose primary batch holds two web_researcher tasks and whose
\* deep-analysis batch holds three tasks, no agent raising
NextSameType ==
    \/ \E p \in SoloIds : StartProject(p, DocWide)
    \/ \E p \in SoloIds : PlanEnter(p)
    \/ \E p \in SoloIds : PlanBuild(p)
    \/ \E p \in SoloIds : PlanExit(p)
    \/ \E p \in SoloIds : StartReturns(p)
    \/ \E p \in SoloIds : PrimaryEnter(p)
    \/ \E p \in SoloIds : PrimaryDone(p)
    \/ \E p \in SoloIds : DeepEnter(p)
    \/ \E p \in SoloIds : DeepDone(p)
    \/ \E p \in SoloIds : Dispatch(p)
    \/ \E p \in SoloIds : WaitSlot(p)
    \/ \E p \in SoloIds : TimerFire(p)
    \/ \E p \in SoloIds : Join(p)
    \/ \E p \in SoloIds, i \in TaskSlots : AgentSucceeds(p, i)
    \/ \E p \in SoloIds, i \in TaskSlots, e \in AgentErrors : AgentFails(p, i, e)
    \/ \E p \in SoloIds, i \in TaskSlots : SettleFulfilled(p, i)
    \/ \E p \in SoloIds : ReportEnter(p)
    \/ \E p \in SoloIds : ReportSucceeds(p)
    \/ \E p \in SoloIds : ReportExit(p)
    \/ \E p \in SoloIds : FinalizeEnter(p)
    \/ \E p \in SoloIds : FinalizeStore(p)
    \/ \E p \in SoloIds : Complete(p)

SameTypeSpec == Init /\ [][NextSameType]_vars

\* C30: while at least one task of an agent type is in flight for a project,
\* the AgentStatus of that agent type in the project is active, also when
\* several tasks of the type run at the same time in a batch.
C30_ActiveWhileInFlight ==
    \A p \in ProjectIds :
        \A i \in 1..Len(tstate[p]) :
            tstate[p][i] = "running" =>
                agentStatus[p][batch[p][i].agentType] = "active"

\* C31: a report agent that returns success=false is handled like any other
\* task-level failure: the completed project has report null and an error
\* entry with recoverable=true for the report agent.
C31_ReportFailureRecorded ==
    \A p \in ProjectIds :
        status[p] = "completed" /\ agentStatus[p]["report_generator"] = "error" =>
            /\ report[p] = "null"
            /\ \E k \in 1..Len(errors[p]) :
                   errors[p][k].agentId = "report_generator" /\ errors[p][k].recoverable

C32_Step ==
    \A p \in ProjectIds :
        /\ pc[p] # "report_wait" /\ pc'[p] = "report_wait" =>
               /\ pc[p] = "report_enter"
               /\ agentStatus[p]["report_generator"] = "idle"
               /\ agentStatus'[p]["report_generator"] = "active"
               /\ status'[p] = "synthesizing"
               /\ runningTasks' = runningTasks
        /\ pc[p] = "report_wait" /\ pc'[p] # "report_wait" =>
               /\ agentStatus'[p]["report_generator"] # "idle"
               /\ runningTasks' = runningTasks
        /\ status'[p] = "synthesizing" => agentStatus'[p]["report_generator"] # "idle"

\* C32: every run that reaches the synthesizing phase invokes the report
\* agent exactly once, with a context that carries no question, and outside
\* the batch path: the invocation neither waits for a free slot nor changes
\* the set of in-flight tasks, and neither does its settling.
C32_ReportOnceOutsideBatch ==
    [][/\ C32_Step
       /\ \A p \in ProjectIds : "questionTask" \notin DOMAIN ReportTask(p)]_vars

\* the report agent is running while the in-flight tasks fill the cap
C32_Witness ==
    \E p \in ProjectIds :
        /\ pc[p] = "report_wait"
        /\ Cardinality(runningTasks) >= maxConcurrentAgents

\* the task executions dispatched and not settled, over every batch
ExecutionsInFlight == UNION {{<< p, i >> : i \in InFlight(p)} : p \in ProjectIds}

\* C33: the in-flight count is exact: a task is counted from its dispatch
\* until its execution settles and every outcome releases its slot exactly
\* once, so the count is the number of executions in flight, and it is 0
\* whenever no task is executing.
C33_InFlightCountExact ==
    Cardinality(runningTasks) = Cardinality(ExecutionsInFlight)

\* the batch of p has ended with every task fulfilled
BatchFulfilled(p) ==
    /\ phase[p] # "none"
    /\ pc[p] \notin {"loop", "wait", "joined"}
    /\ \A i \in 1..Len(tstate[p]) : tstate[p][i] = "fulfilled"

C35_BatchTasksOwn ==
    \A p \in ProjectIds :
        /\ \A i \in 1..Len(batch[p]) :
               /\ batch[p][i].projectId = p
               /\ batch[p][i] \in Range(PlannedTasks(p, scopingDocument[p]))
        /\ \A k \in 1..Len(findings[p]) :
               findings[p][k].task \in
                   {t.id : t \in Range(PlannedTasks(p, scopingDocument[p]))}
                       \cup {ReportTask(p).id}

(***************************************************************************)
(* C36.  A project's status is failed exactly when its error list holds   *)
(* an entry with recoverable = false; the entries of task failures are    *)
(* recoverable, and a completed project has no non-recoverable entry.     *)
(***************************************************************************)
C36_FailedIffFatalEntry ==
    \A p \in ProjectIds :
        /\ status[p] = "failed" <=> FatalEntries(p) # {}
        /\ \A k \in 1..Len(errors[p]) :
               errors[p][k].agentId # "" => errors[p][k].recoverable
        /\ status[p] = "completed" => FatalEntries(p) = {}

\* a project has failed and holds the one entry of handleProjectError
C36_Witness ==
    \E p \in ProjectIds :
        /\ status[p] = "failed"
        /\ Cardinality(FatalEntries(p)) = 1
        /\ \A k \in FatalEntries(p) : errors[p][k].agentId = ""

(***************************************************************************)
(* C37.  Between two turns of the event loop the in-memory status and the *)
(* status persisted in the store agree on the terminal and paused values: *)
(* an in-memory completed or failed is persisted as such, and a persisted *)
(* paused, completed or failed is the in-memory status.                   *)
(***************************************************************************)
C37_StatusAgrees ==
    micro = << >> =>
        \A p \in ProjectIds :
            /\ status[p] \in {"completed", "failed"} => dbStatus[p] = status[p]
            /\ dbStatus[p] \in {"paused", "completed", "failed"} => status[p] = dbStatus[p]

(***************************************************************************)
(* C38.  The task lists of the shared context track the work: the entry   *)
(* of a planned task whose agent has completed it is no longer in         *)
(* pendingTasks, and the pendingTasks of a completed project is empty.    *)
(***************************************************************************)
C38_PendingTracksWork ==
    \A p \in ProjectIds :
        sharedContext[p].present =>
            /\ \A t \in Range(PlannedTasks(p, scopingDocument[p])) :
                   CompletedEntry(t) \in Range(sharedContext[p].completedTasks) =>
                       PendingEntry(t) \notin Range(sharedContext[p].pendingTasks)
            /\ status[p] = "completed" => sharedContext[p].pendingTasks = << >>

(***************************************************************************)
(* The project routes of the API server.  Every route fetches the          *)
(* orchestrator of the caller's GCP project with getOrchestratorInstance.  *)
(***************************************************************************)
\* getOrchestrator: the module-level singleton; `new ResearchOrchestrator` only
\* while orchestratorInstance is null, and then the next instance number
getOrchestrator ==
    IF orchestratorInstance = NoInstance
    THEN Cardinality({orchestrators[g] : g \in GcpProjectIds} \ {NoInstance}) + 1
    ELSE orchestratorInstance

\* the instance getOrchestratorInstance(gcpProjectId, accessToken) returns
InstanceFor(g) ==
    IF orchestrators[g] = NoInstance THEN getOrchestrator ELSE orchestrators[g]

\* getOrchestratorInstance: a key the Map lacks is set to getOrchestrator(...)
getOrchestratorInstance(g) ==
    /\ orchestrators' = [orchestrators EXCEPT ![g] = InstanceFor(g)]
    /\ orchestratorInstance' =
           IF orchestrators[g] = NoInstance THEN getOrchestrator ELSE orchestratorInstance

\* POST /api/projects and POST /api/projects/quick under gcpAuth.projectId g, up
\* to the await of orch.startProject; StartReturns is the rest of the handler
PostProject(g, p, doc) ==
    /\ getOrchestratorInstance(g)
    /\ startProject(p, doc)
    /\ instanceProjects' = [instanceProjects EXCEPT ![InstanceFor(g)] = @ \cup {p}]
    /\ startedUnder' = [startedUnder EXCEPT ![p] = g]
    /\ UNCHANGED response

\* GET /api/projects: orch.getAllProjects()
GetProjects(g) ==
    /\ Macrotask
    /\ getOrchestratorInstance(g)
    /\ response' = [route |-> "list", gcpProjectId |-> g, status |-> 200,
                    projects |-> instanceProjects[InstanceFor(g)]]
    /\ UNCHANGED << instanceProjects, startedUnder, rejectedStarts, lastCall, http >>
    /\ UNCHANGED << returned, storeVars, maxConcurrentAgents, crashed, pauseLog, dataVars,
                    batchVars, taskQueue, runningTasks, activeProjects, status, progress,
                    currentPhase, dbStatus, events, pc, exc, micro, faults >>

\* GET /api/projects/:projectId: orch.getProject(projectId), else the row of
\* the store (getAgentDB().getProject), else 404
GetProject(g, p) ==
    /\ Macrotask
    /\ getOrchestratorInstance(g)
    /\ response' =
           IF p \in instanceProjects[InstanceFor(g)] \/ dbStatus[p] # "absent"
           THEN [route |-> "detail", gcpProjectId |-> g, status |-> 200, projects |-> {p}]
           ELSE [route |-> "detail", gcpProjectId |-> g, status |-> 404, projects |-> {}]
    /\ UNCHANGED << instanceProjects, startedUnder, rejectedStarts, lastCall, http >>
    /\ UNCHANGED << returned, storeVars, maxConcurrentAgents, crashed, pauseLog, dataVars,
                    batchVars, taskQueue, runningTasks, activeProjects, status, progress,
                    currentPhase, dbStatus, events, pc, exc, micro, faults >>

\* callers of two GCP projects start projects and read the project routes,
\* every agent succeeding
NextServer ==
    \/ \E g \in GcpProjectIds, p \in ProjectIds : PostProject(g, p, DocFinancial)
    \/ \E g \in GcpProjectIds : GetProjects(g)
    \/ \E g \in GcpProjectIds, p \in ProjectIds : GetProject(g, p)
    \/ \E p \in ProjectIds : PlanEnter(p)
    \/ \E p \in ProjectIds : PlanBuild(p)
    \/ \E p \in ProjectIds : PlanExit(p)
    \/ \E p \in ProjectIds : StartReturns(p)
    \/ \E p \in ProjectIds : PrimaryEnter(p)
    \/ \E p \in ProjectIds : PrimaryDone(p)
    \/ \E p \in ProjectIds : DeepEnter(p)
    \/ \E p \in ProjectIds : DeepDone(p)
    \/ \E p \in ProjectIds : Dispatch(p)
    \/ \E p \in ProjectIds : WaitSlot(p)
    \/ \E p \in ProjectIds : TimerFire(p)
    \/ \E p \in ProjectIds : Join(p)
    \/ \E p \in ProjectIds, i \in TaskSlots : AgentSucceeds(p, i)
    \/ \E p \in ProjectIds, i \in TaskSlots : SettleFulfilled(p, i)
    \/ \E p \in ProjectIds : ReportEnter(p)
    \/ \E p \in ProjectIds : ReportSucceeds(p)
    \/ \E p \in ProjectIds : ReportExit(p)
    \/ \E p \in ProjectIds : FinalizeEnter(p)
    \/ \E p \in ProjectIds : FinalizeStore(p)
    \/ \E p \in ProjectIds : Complete(p)

ServerSpec == Init /\ [][NextServer]_vars

(***************************************************************************)
(* C39.  Research projects are isolated per GCP project in the server:    *)
(* callers under different GCP project ids get different orchestrator     *)
(* instances, and the project list and the project details answered to a  *)
(* caller under GCP project X hold only projects started under X.         *)
(***************************************************************************)
C39_IsolatedPerGcpProject ==
    /\ \A g, h \in GcpProjectIds :
           g # h /\ orchestrators[g] # NoInstance /\ orchestrators[h] # NoInstance =>
               orchestrators[g] # orchestrators[h]
    /\ response.status = 200 =>
           \A p \in response.projects : startedUnder[p] = response.gcpProjectId

====
